---- MODULE Spec2Model ----
(***************************************************************************)
(* A model of musicdb's catalog store, command replication, playback       *)
(* queue, song cache, byte codecs and get channel (musicdb-lib/src/data/   *)
(* database.rs, queue.rs, song.rs and server/get.rs).  Spec is the         *)
(* replication hub, SpecCatalog the catalog calls, SpecQueue the queue     *)
(* functions, SpecCache the cache of one song, SpecCodec the to_bytes and  *)
(* from_bytes of a queue, SpecSnapshot a save of the database file and     *)
(* its load, SpecGet one get connection, SpecCommands the queue commands   *)
(* applied to a database, SpecEdit the edits of a queue tree by path and   *)
(* SpecPlay the playback commands on a server and on a client.             *)
(*                                                                         *)
(* A Database is a record with the fields of struct Database that the      *)
(* commands read or write: artists, albums, songs, covers (id-keyed        *)
(* mappings), queue, playing, lib_directory and db_file.  Entities carry   *)
(* the fields that the operations read or write: Song {id, album,          *)
(* artist}, Album {id, artist, songs}, Artist {id, albums, singles},       *)
(* Cover {location}.  Titles and tags are payload no operation of the      *)
(* model looks at.                                                         *)
(*                                                                         *)
(* server/mod.rs (the Command type, its codec and the connection           *)
(* threads), load/mod.rs (the codecs of the primitive types) and           *)
(* data/mod.rs (Cover, DatabaseLocation) are not part of the sources at    *)
(* hand: frames, the accept path, is_client, the Remove* and               *)
(* QueueSetShuffle arms, the primitive byte layouts and the cover bytes    *)
(* follow the written specification.                                       *)
(***************************************************************************)
EXTENDS Integers, Sequences, FiniteSets, TLC

\* ---------------------------------------------------------------- bounds

\* the highest entity id a payload refers to
MaxId == 1
\* calls made on the catalog in one run of SpecCatalog
MaxCalls == 3

\* ---------------------------------------------------------------- values

\* Option::<Id>::None (ids are u64, so no id is negative)
None == -1

\* the ids payloads refer to: the first and the highest
IdSet == {0, MaxId}

OptId == IdSet \cup {None}

\* link lists a payload entity may carry: none, or a link to id 0
IdLists == {<<>>, <<0>>}

\* HashMap::insert
Put(m, k, v) == [x \in DOMAIN m \cup {k} |-> IF x = k THEN v ELSE m[x]]

\* HashMap::remove
Del(m, k) == [x \in DOMAIN m \ {k} |-> m[x]]

EmptyMap == [x \in {} |-> 0]

\* Vec<Entity> -> HashMap<Id, Entity>: .iter().map(|v| (v.id, v.clone())).collect()
RECURSIVE collect_by_id(_, _)
collect_by_id(vec, acc) ==
    IF vec = <<>> THEN acc
    ELSE collect_by_id(Tail(vec), Put(acc, Head(vec).id, Head(vec)))

\* ------------------------------------------------------------- catalog store

\* a scan that takes the number of entries for the first free key
first_free_key_count(m, key) == Cardinality(DOMAIN m)

\* a scan that stops at its first key without looking at the map
first_free_key_stuck(m, key) == key

\* the `for key in 0..` scan of add_*_new_nomagic: the first key not in the map
RECURSIVE first_free_key(_, _)
first_free_key(m, key) ==
    IF key \notin DOMAIN m THEN key ELSE first_free_key(m, key + 1)

add_song_new_nomagic(d, song) ==
    LET key == first_free_key(d.songs, 0)
    IN  [db |-> [d EXCEPT !.songs = Put(@, key, [song EXCEPT !.id = key])], id |-> key]

add_artist_new_nomagic(d, artist) ==
    LET key == first_free_key(d.artists, 0)
    IN  [db |-> [d EXCEPT !.artists = Put(@, key, [artist EXCEPT !.id = key])], id |-> key]

add_album_new_nomagic(d, album) ==
    LET key == first_free_key(d.albums, 0)
    IN  [db |-> [d EXCEPT !.albums = Put(@, key, [album EXCEPT !.id = key])], id |-> key]

\* a choice of parent that looks at the artist before the album
song_parent_artist_first(d, album, artist) ==
    IF artist # None /\ artist \in DOMAIN d.artists THEN "artist"
    ELSE IF album # None /\ album \in DOMAIN d.albums THEN "album"
    ELSE "none"

\* which parent list add_song_new pushes the new id to
song_parent(d, album, artist) ==
    IF album # None /\ album \in DOMAIN d.albums THEN "album"
    ELSE IF artist # None /\ artist \in DOMAIN d.artists THEN "artist"
    ELSE "none"

\* an add_song_new that links the id the entity came with, not the new one
add_song_new_stale_id(d, song) ==
    LET album  == song.album
        artist == song.artist
        r      == add_song_new_nomagic(d, song)
        parent == song_parent(r.db, album, artist)
    IN  IF parent = "album"
        THEN [db |-> [r.db EXCEPT !.albums[album].songs = Append(@, song.id)], id |-> r.id]
        ELSE IF parent = "artist"
        THEN [db |-> [r.db EXCEPT !.artists[artist].singles = Append(@, song.id)], id |-> r.id]
        ELSE r

add_song_new(d, song) ==
    LET album  == song.album
        artist == song.artist
        r      == add_song_new_nomagic(d, song)
        parent == song_parent(r.db, album, artist)
    IN  IF parent = "album"
        THEN [db |-> [r.db EXCEPT !.albums[album].songs = Append(@, r.id)], id |-> r.id]
        ELSE IF parent = "artist"
        THEN [db |-> [r.db EXCEPT !.artists[artist].singles = Append(@, r.id)], id |-> r.id]
        ELSE r

add_artist_new(d, artist) == add_artist_new_nomagic(d, artist)

add_album_new(d, album) ==
    LET artist == album.artist
        r      == add_album_new_nomagic(d, album)
    IN  IF artist # None /\ artist \in DOMAIN r.db.artists
        THEN [db |-> [r.db EXCEPT !.artists[artist].albums = Append(@, r.id)], id |-> r.id]
        ELSE r

update_song(d, song) ==
    IF song.id \in DOMAIN d.songs THEN [d EXCEPT !.songs[song.id] = song] ELSE d

update_album(d, album) ==
    IF album.id \in DOMAIN d.albums THEN [d EXCEPT !.albums[album.id] = album] ELSE d

update_artist(d, artist) ==
    IF artist.id \in DOMAIN d.artists THEN [d EXCEPT !.artists[artist.id] = artist] ELSE d

\* remove_song / remove_album / remove_artist: the entry leaves its own mapping,
\* references to it in other entities stay
remove_song(d, id) == [d EXCEPT !.songs = Del(@, id)]

remove_album(d, id) == [d EXCEPT !.albums = Del(@, id)]

remove_artist(d, id) == [d EXCEPT !.artists = Del(@, id)]

sync(d, artists, albums, songs) ==
    [d EXCEPT !.artists = collect_by_id(artists, EmptyMap),
              !.albums  = collect_by_id(albums, EmptyMap),
              !.songs   = collect_by_id(songs, EmptyMap)]

\* ------------------------------------------------------------- queue algebra
\* A Queue is [enabled, content]; content is one of
\*   [type |-> "Song", id], [type |-> "Folder", index, contents, name],
\*   [type |-> "Loop", total, current, inner], [type |-> "Random", q],
\*   [type |-> "Shuffle", current, map, elems, next].
\* Cursors and index paths are 0-based as in the source.

\* impl From<QueueContent> for Queue
Into(content) == [enabled |-> TRUE, content |-> content]

QSong(id) == [type |-> "Song", id |-> id]

QFolder(index, contents, name) ==
    [type |-> "Folder", index |-> index, contents |-> contents, name |-> name]

QLoop(total, current, inner) ==
    [type |-> "Loop", total |-> total, current |-> current, inner |-> inner]

QRandom(q) == [type |-> "Random", q |-> q]

QShuffle(current, map, elems, next) ==
    [type |-> "Shuffle", current |-> current, map |-> map, elems |-> elems, next |-> next]

\* Option::<Queue>::None
NoQueue == [none |-> TRUE]

\* slice.get(i).is_some()
Has(v, i) == i >= 0 /\ i < Len(v)

\* v[i]
At(v, i) == v[i + 1]

\* v[i] = x
VecSet(v, i, x) == [v EXCEPT ![i + 1] = x]

\* an insert that pushes x to the end whatever the position
VecInsert_at_end(v, i, x) == Append(v, x)

\* Vec::insert(i, x)
VecInsert(v, i, x) == SubSeq(v, 1, i) \o <<x>> \o SubSeq(v, i + 1, Len(v))

\* Vec::remove(i)
VecRemove(v, i) == SubSeq(v, 1, i) \o SubSeq(v, i + 2, Len(v))

\* usize::saturating_sub
saturating_sub(a, b) == IF a >= b THEN a - b ELSE 0

\* the position in elems that path component i of a Shuffle resolves to:
\* map.get(i).and_then(|i| elems.get(*i)); -1 when either lookup fails
shuffle_elem(c, i) ==
    IF Has(c.map, i) /\ Has(c.elems, At(c.map, i)) THEN At(c.map, i) ELSE -1

add_to_end(self, v) ==
    LET c == self.content
    IN  CASE c.type = "Song" -> [q |-> self, ret |-> None]
          [] c.type = "Folder" ->
                [q |-> [self EXCEPT !.content.contents = Append(@, v)],
                 ret |-> Len(c.contents)]
          [] c.type = "Loop" -> [q |-> self, ret |-> None]
          [] c.type = "Random" ->
                [q |-> [self EXCEPT !.content.q = Append(@, v)], ret |-> Len(c.q)]
          [] c.type = "Shuffle" ->
                [q |-> [self EXCEPT !.content.map = Append(@, Len(c.elems)),
                                    !.content.elems = Append(@, v)],
                 ret |-> Len(c.map)]

insert(self, v, index) ==
    LET c == self.content
    IN  CASE c.type = "Song" -> [q |-> self, ret |-> FALSE]
          [] c.type = "Folder" ->
                IF index <= Len(c.contents)
                THEN [q |-> [self EXCEPT
                               !.content.index = IF @ >= index THEN @ + 1 ELSE @,
                               !.content.contents = VecInsert(@, index, v)],
                      ret |-> TRUE]
                ELSE [q |-> self, ret |-> FALSE]
          [] c.type = "Shuffle" ->
                IF index <= Len(c.map)
                THEN [q |-> [self EXCEPT
                               !.content.map = VecInsert(@, index, Len(c.elems)),
                               !.content.elems = Append(@, v)],
                      ret |-> TRUE]
                ELSE [q |-> self, ret |-> FALSE]
          [] c.type \in {"Loop", "Random"} -> [q |-> self, ret |-> FALSE]

RECURSIVE get_item_at_index(_, _, _)
get_item_at_index(self, index, depth) ==
    IF Has(index, depth)
    THEN LET i == At(index, depth)
             c == self.content
         IN  CASE c.type = "Song" -> NoQueue
               [] c.type = "Folder" ->
                     IF Has(c.contents, i)
                     THEN get_item_at_index(At(c.contents, i), index, depth + 1)
                     ELSE NoQueue
               [] c.type = "Loop" -> get_item_at_index(c.inner, index, depth + 1)
               [] c.type = "Random" ->
                     IF Has(c.q, i)
                     THEN get_item_at_index(At(c.q, i), index, depth + 1)
                     ELSE NoQueue
               [] c.type = "Shuffle" ->
                     IF shuffle_elem(c, i) >= 0
                     THEN get_item_at_index(At(c.elems, shuffle_elem(c, i)), index, depth + 1)
                     ELSE NoQueue
    ELSE self

\* the write through the &mut Queue that get_item_at_index_mut returns: the
\* queue with the item at `index` replaced by `new` (unchanged when the path
\* does not resolve)
RECURSIVE set_item_at_index(_, _, _, _)
set_item_at_index(self, index, depth, new) ==
    IF Has(index, depth)
    THEN LET i == At(index, depth)
             c == self.content
         IN  CASE c.type = "Song" -> self
               [] c.type = "Folder" ->
                     IF Has(c.contents, i)
                     THEN [self EXCEPT !.content.contents =
                             VecSet(@, i, set_item_at_index(At(c.contents, i), index, depth + 1, new))]
                     ELSE self
               [] c.type = "Loop" ->
                     [self EXCEPT !.content.inner =
                        set_item_at_index(c.inner, index, depth + 1, new)]
               [] c.type = "Random" ->
                     IF Has(c.q, i)
                     THEN [self EXCEPT !.content.q =
                             VecSet(@, i, set_item_at_index(At(c.q, i), index, depth + 1, new))]
                     ELSE self
               [] c.type = "Shuffle" ->
                     IF shuffle_elem(c, i) >= 0
                     THEN [self EXCEPT !.content.elems =
                             VecSet(@, shuffle_elem(c, i),
                                    set_item_at_index(At(c.elems, shuffle_elem(c, i)), index, depth + 1, new))]
                     ELSE self
    ELSE new

RECURSIVE remove_by_index(_, _, _)
remove_by_index(self, index, depth) ==
    IF Has(index, depth)
    THEN LET i == At(index, depth)
             c == self.content
         IN  CASE c.type = "Song" -> [q |-> self, ret |-> NoQueue]
               [] c.type = "Folder" ->
                     IF depth + 1 < Len(index)
                     THEN IF Has(c.contents, i)
                          THEN LET r == remove_by_index(At(c.contents, i), index, depth + 1)
                               IN  [q |-> [self EXCEPT !.content.contents = VecSet(@, i, r.q)],
                                    ret |-> r.ret]
                          ELSE [q |-> self, ret |-> NoQueue]
                     ELSE IF i < Len(c.contents)
                          THEN [q |-> [self EXCEPT
                                         !.content.index = IF @ > i THEN @ - 1 ELSE @,
                                         !.content.contents = VecRemove(@, i)],
                                ret |-> At(c.contents, i)]
                          ELSE [q |-> self, ret |-> NoQueue]
               [] c.type = "Loop" ->
                     IF depth + 1 < Len(index)
                     THEN LET r == remove_by_index(c.inner, index, depth + 1)
                          IN  [q |-> [self EXCEPT !.content.inner = r.q], ret |-> r.ret]
                     ELSE [q |-> self, ret |-> NoQueue]
               [] c.type = "Random" ->
                     IF Has(c.q, i)
                     THEN [q |-> [self EXCEPT !.content.q = VecRemove(@, i)],
                           ret |-> At(c.q, i)]
                     ELSE [q |-> self, ret |-> NoQueue]
               [] c.type = "Shuffle" ->
                     LET current == IF i < c.current THEN c.current - 1 ELSE c.current
                         next    == IF i < c.next THEN c.next - 1 ELSE c.next
                         moved   == [self EXCEPT !.content.current = current,
                                                 !.content.next = next]
                     IN  IF i < Len(c.map)
                         THEN LET elem == At(c.map, i)
                                  unmapped == [moved EXCEPT !.content.map = VecRemove(@, i)]
                              IN  IF elem < Len(c.elems)
                                  THEN [q |-> [unmapped EXCEPT !.content.elems = VecRemove(@, elem)],
                                        ret |-> At(c.elems, elem)]
                                  ELSE [q |-> unmapped, ret |-> NoQueue]
                         ELSE [q |-> moved, ret |-> NoQueue]
    ELSE [q |-> self, ret |-> NoQueue]

\* v.iter().map(|v| v.len()).sum(), for `len` any of the length operators
\* below
RECURSIVE sum_by(_, _)
sum_by(v, n) ==
    IF n = 0 THEN 0 ELSE sum_by(v, n - 1) + v[n]

\* a len whose Loop arm multiplies by total also when total is 0
RECURSIVE len_loop_times_total(_)
len_loop_times_total(self) ==
    LET c == self.content
        sum(v) == sum_by([n \in 1..Len(v) |-> len_loop_times_total(v[n])], Len(v))
    IN  IF ~self.enabled THEN 0
        ELSE CASE c.type = "Song" -> 1
               [] c.type = "Folder" -> sum(c.contents)
               [] c.type = "Loop" -> c.total * len_loop_times_total(c.inner)
               [] c.type = "Random" -> sum(c.q)
               [] c.type = "Shuffle" -> sum(c.elems)

RECURSIVE len(_)
len(self) ==
    LET c == self.content
        sum(v) == sum_by([n \in 1..Len(v) |-> len(v[n])], Len(v))
    IN  IF ~self.enabled THEN 0
        ELSE CASE c.type = "Song" -> 1
               [] c.type = "Folder" -> sum(c.contents)
               [] c.type = "Loop" ->
                     IF c.total = 0 THEN len(c.inner) ELSE c.total * len(c.inner)
               [] c.type = "Random" -> sum(c.q)
               [] c.type = "Shuffle" -> sum(c.elems)

\* a get_current whose Shuffle arm reads elems at `current`, not through map
RECURSIVE get_current_past_map(_)
get_current_past_map(self) ==
    LET c == self.content
    IN  CASE c.type = "Song" -> self
          [] c.type = "Folder" ->
                IF Has(c.contents, c.index) THEN get_current_past_map(At(c.contents, c.index))
                ELSE NoQueue
          [] c.type = "Loop" -> get_current_past_map(c.inner)
          [] c.type = "Random" ->
                IF Has(c.q, saturating_sub(Len(c.q), 2))
                THEN get_current_past_map(At(c.q, saturating_sub(Len(c.q), 2)))
                ELSE NoQueue
          [] c.type = "Shuffle" ->
                IF Has(c.elems, c.current) THEN At(c.elems, c.current) ELSE NoQueue

\* returns the queue found, or NoQueue
RECURSIVE get_current(_)
get_current(self) ==
    LET c == self.content
    IN  CASE c.type = "Song" -> self
          [] c.type = "Folder" ->
                IF Has(c.contents, c.index) THEN get_current(At(c.contents, c.index))
                ELSE NoQueue
          [] c.type = "Loop" -> get_current(c.inner)
          [] c.type = "Random" ->
                IF Has(c.q, saturating_sub(Len(c.q), 2))
                THEN get_current(At(c.q, saturating_sub(Len(c.q), 2)))
                ELSE NoQueue
          [] c.type = "Shuffle" ->
                IF shuffle_elem(c, c.current) >= 0
                THEN At(c.elems, shuffle_elem(c, c.current))
                ELSE NoQueue

\* ------------------------------------------------------------- queue cursor
\* init and advance_index_inner push QueueActions to `actions`; the operators
\* return the pushed actions in order.  A SetShuffle action carries what init
\* draws its random new_map and new_next from (elems.len() and next); the draw
\* itself is made where the action is consumed (handle_actions), which nothing
\* can observe in between.

AddRandomSong(path) == [type |-> "AddRandomSong", path |-> path]

SetShuffle(path, elems_len, next) ==
    [type |-> "SetShuffle", path |-> path, len |-> elems_len, next |-> next]

\* all orders new_map.shuffle() can leave the elements of S in
Shuffled(S) ==
    {p \in [1..Cardinality(S) -> S] : \A i, j \in 1..Cardinality(S) : p[i] = p[j] => i = j}

\* the values of new_map in init's Shuffle arm: (0..len).filter(|v| v != next),
\* shuffled, its first entry replaced by next and pushed to the end
shuffle_new_maps(elems_len, next) ==
    LET rest == {v \in 0..(elems_len - 1) : v # next}
    IN  IF rest # {}
        THEN {<<next>> \o Tail(p) \o <<Head(p)>> : p \in Shuffled(rest)}
        ELSE IF next < elems_len THEN {<<next>>} ELSE {<<>>}

\* the values of new_next: 0 when elems is empty, else gen_range(0..len)
shuffle_new_nexts(elems_len) == IF elems_len = 0 THEN {0} ELSE 0..(elems_len - 1)

RECURSIVE init(_, _)
init(self, path) ==
    LET c == self.content
    IN  CASE c.type = "Song" -> <<>>
          [] c.type = "Folder" ->
                IF c.contents # <<>> THEN init(Head(c.contents), path) ELSE <<>>
          [] c.type = "Loop" -> init(c.inner, path)
          [] c.type = "Random" ->
                (IF Len(c.q) = 0 THEN <<AddRandomSong(path), AddRandomSong(path)>> ELSE <<>>)
                \o (IF Has(c.q, saturating_sub(Len(c.q), 2))
                    THEN init(At(c.q, saturating_sub(Len(c.q), 2)), path)
                    ELSE <<>>)
          [] c.type = "Shuffle" -> <<SetShuffle(path, Len(c.elems), c.next)>>

\* a folder that gives up one child before its last
next_enabled_stops_early(contents, index) ==
    IF index + 2 < Len(contents) THEN index + 1 ELSE -1

\* the first enabled child after position `index`, or -1: the `loop` of the
\* Folder arm of advance_index_inner
RECURSIVE next_enabled(_, _)
next_enabled(contents, index) ==
    IF index + 1 < Len(contents)
    THEN IF At(contents, index + 1).enabled THEN index + 1
         ELSE next_enabled(contents, index + 1)
    ELSE -1

\* a Loop that grants one round more than total
loop_again_once_more(total, current) == total = 0 \/ current <= total

\* the Loop arm of advance_index_inner, after `*current += 1`: another round
\* of inner follows
loop_again(total, current) == total = 0 \/ current < total

\* returns [q: the queue afterwards, actions: the actions pushed, ret: did advance]
RECURSIVE advance_index_inner(_, _)
advance_index_inner(self, path) ==
    LET c == self.content
    IN  CASE c.type = "Song" -> [q |-> self, actions |-> <<>>, ret |-> FALSE]
          [] c.type = "Folder" ->
                IF Has(c.contents, c.index)
                THEN LET r == advance_index_inner(At(c.contents, c.index), Append(path, c.index))
                         contents == VecSet(c.contents, c.index, r.q)
                         j == next_enabled(contents, c.index)
                     IN  IF r.ret
                         THEN [q |-> [self EXCEPT !.content.contents = contents],
                               actions |-> r.actions, ret |-> TRUE]
                         ELSE IF j >= 0
                         THEN [q |-> [self EXCEPT !.content.contents = contents,
                                                  !.content.index = j],
                               actions |-> r.actions \o init(At(contents, j), path),
                               ret |-> TRUE]
                         ELSE [q |-> [self EXCEPT !.content.contents = contents,
                                                  !.content.index = 0],
                               actions |-> r.actions, ret |-> FALSE]
                ELSE [q |-> [self EXCEPT !.content.index = 0], actions |-> <<>>, ret |-> FALSE]
          [] c.type = "Loop" ->
                LET r == advance_index_inner(c.inner, Append(path, 0))
                    current == c.current + 1
                IN  IF r.ret
                    THEN [q |-> [self EXCEPT !.content.inner = r.q],
                          actions |-> r.actions, ret |-> TRUE]
                    ELSE IF loop_again(c.total, current)
                    THEN [q |-> [self EXCEPT !.content.inner = r.q,
                                             !.content.current = current],
                          actions |-> r.actions \o init(r.q, path), ret |-> TRUE]
                    ELSE [q |-> [self EXCEPT !.content.inner = r.q,
                                             !.content.current = 0],
                          actions |-> r.actions, ret |-> FALSE]
          [] c.type = "Random" ->
                LET i == saturating_sub(Len(c.q), 2)
                    r == IF Has(c.q, i)
                         THEN advance_index_inner(At(c.q, i), Append(path, i))
                         ELSE [q |-> NoQueue, actions |-> <<>>, ret |-> FALSE]
                    q1 == IF Has(c.q, i) THEN VecSet(c.q, i, r.q) ELSE c.q
                    q2 == IF Len(q1) >= 2 THEN Tail(q1) ELSE q1
                    i2 == saturating_sub(Len(q2), 1)
                IN  IF r.ret
                    THEN [q |-> [self EXCEPT !.content.q = q1],
                          actions |-> r.actions, ret |-> TRUE]
                    ELSE [q |-> [self EXCEPT !.content.q = q2],
                          actions |-> r.actions
                                      \o (IF Has(q2, i2) THEN init(At(q2, i2), Append(path, i2))
                                          ELSE <<>>)
                                      \o <<AddRandomSong(path)>>,
                          ret |-> FALSE]
          [] c.type = "Shuffle" ->
                LET e == shuffle_elem(c, c.current)
                    r == IF e >= 0
                         THEN advance_index_inner(At(c.elems, e), Append(path, c.current))
                         ELSE [q |-> NoQueue, actions |-> <<>>, ret |-> FALSE]
                    elems == IF e >= 0 THEN VecSet(c.elems, e, r.q) ELSE c.elems
                    current == c.current + 1
                    e2 == shuffle_elem([c EXCEPT !.elems = elems], current)
                IN  IF r.ret
                    THEN [q |-> [self EXCEPT !.content.elems = elems],
                          actions |-> r.actions, ret |-> TRUE]
                    ELSE IF current < Len(c.map)
                    THEN [q |-> [self EXCEPT !.content.elems = elems,
                                             !.content.current = current],
                          actions |-> r.actions
                                      \o (IF e2 >= 0 THEN init(At(elems, e2), path) ELSE <<>>),
                          ret |-> TRUE]
                    ELSE [q |-> [self EXCEPT !.content.elems = elems,
                                             !.content.current = 0],
                          actions |-> r.actions, ret |-> FALSE]

\* returns [q: the queue afterwards, actions: the actions pushed]
RECURSIVE set_index_inner(_, _, _, _)
set_index_inner(self, index, depth, build_index) ==
    IF ~Has(index, depth) THEN [q |-> self, actions |-> <<>>]
    ELSE
    LET i == At(index, depth)
        built == Append(build_index, i)
        c == self.content
    IN  CASE c.type = "Song" -> [q |-> self, actions |-> <<>>]
          [] c.type = "Folder" ->
                IF Has(c.contents, i)
                THEN LET r == set_index_inner(At(c.contents, i), index, depth + 1, built)
                     IN  [q |-> [self EXCEPT !.content.index = i,
                                             !.content.contents = VecSet(@, i, r.q)],
                          actions |-> init(At(c.contents, i), built) \o r.actions]
                ELSE [q |-> [self EXCEPT !.content.index = i], actions |-> <<>>]
          [] c.type = "Loop" ->
                LET r == set_index_inner(c.inner, index, depth + 1, built)
                IN  [q |-> [self EXCEPT !.content.inner = r.q],
                     actions |-> init(c.inner, built) \o r.actions]
          [] c.type = "Random" -> [q |-> self, actions |-> <<>>]
          [] c.type = "Shuffle" ->
                LET e == shuffle_elem(c, i)
                IN  IF e >= 0
                    THEN LET r == set_index_inner(At(c.elems, e), index, depth + 1, built)
                         IN  [q |-> [self EXCEPT !.content.current = i,
                                                 !.content.elems = VecSet(@, e, r.q)],
                              actions |-> init(At(c.elems, e), built) \o r.actions]
                    ELSE [q |-> [self EXCEPT !.content.current = i], actions |-> <<>>]

\* ------------------------------------------------------------- commands

Resume == [type |-> "Resume"]

Pause == [type |-> "Pause"]

Stop == [type |-> "Stop"]

NextSong == [type |-> "NextSong"]

Save == [type |-> "Save"]

SyncDatabase(a, b, c) == [type |-> "SyncDatabase", artists |-> a, albums |-> b, songs |-> c]

QueueUpdate(index, new_data) == [type |-> "QueueUpdate", index |-> index, new_data |-> new_data]

QueueAdd(index, new_data) == [type |-> "QueueAdd", index |-> index, new_data |-> new_data]

QueueInsert(index, pos, new_data) ==
    [type |-> "QueueInsert", index |-> index, pos |-> pos, new_data |-> new_data]

QueueRemove(index) == [type |-> "QueueRemove", index |-> index]

QueueGoto(index) == [type |-> "QueueGoto", index |-> index]

QueueSetShuffle(path, map, next) ==
    [type |-> "QueueSetShuffle", path |-> path, map |-> map, next |-> next]

AddSong(song) == [type |-> "AddSong", song |-> song]

AddAlbum(album) == [type |-> "AddAlbum", album |-> album]

AddArtist(artist) == [type |-> "AddArtist", artist |-> artist]

ModifySong(song) == [type |-> "ModifySong", song |-> song]

ModifyAlbum(album) == [type |-> "ModifyAlbum", album |-> album]

ModifyArtist(artist) == [type |-> "ModifyArtist", artist |-> artist]

RemoveSong(id) == [type |-> "RemoveSong", id |-> id]

RemoveAlbum(id) == [type |-> "RemoveAlbum", id |-> id]

RemoveArtist(id) == [type |-> "RemoveArtist", id |-> id]

SetLibraryDirectory(dir) == [type |-> "SetLibraryDirectory", dir |-> dir]

\* ------------------------------------------------------------- database

EmptyQueue == Into(QFolder(0, <<>>, ""))

new_clientside ==
    [db_file |-> "", lib_directory |-> "", artists |-> EmptyMap, albums |-> EmptyMap,
     songs |-> EmptyMap, covers |-> EmptyMap, queue |-> EmptyQueue, playing |-> FALSE]

new_empty(path, lib_dir) ==
    [db_file |-> path, lib_directory |-> lib_dir, artists |-> EmptyMap, albums |-> EmptyMap,
     songs |-> EmptyMap, covers |-> EmptyMap, queue |-> EmptyQueue, playing |-> FALSE]

\* a database read from a file that holds the given mappings
load_database(path, lib_dir, artists, albums, songs) ==
    [db_file |-> path, lib_directory |-> lib_dir, artists |-> artists, albums |-> albums,
     songs |-> songs, covers |-> EmptyMap, queue |-> EmptyQueue, playing |-> FALSE]

\* client mode is "no path is set" (save_database)
is_client(d) == d.db_file = ""

\* the QueueSetShuffle arm of apply_command: the map and next of the Shuffle at path
set_shuffle(queue, path, map, next) ==
    LET elem == get_item_at_index(queue, path, 0)
    IN  IF elem # NoQueue /\ elem.content.type = "Shuffle"
        THEN set_item_at_index(queue, path, 0,
                 [elem EXCEPT !.content.map = map, !.content.next = next])
        ELSE queue

\* the `match command` of apply_command: [db: the database afterwards,
\* actions: the QueueActions that advance_index_db / set_index_db hand to
\* handle_actions]
apply_match(d, command) ==
    LET t == command.type
        same(x) == [db |-> x, actions |-> <<>>]
        item(index) == get_item_at_index(d.queue, index, 0)
        write(index, new) == [d EXCEPT !.queue = set_item_at_index(@, index, 0, new)]
    IN  CASE t = "Resume" -> same([d EXCEPT !.playing = TRUE])
          [] t = "Pause" -> same([d EXCEPT !.playing = FALSE])
          [] t = "Stop" -> same([d EXCEPT !.playing = FALSE])
          [] t = "NextSong" ->
                LET r == advance_index_inner(d.queue, <<>>)
                IN  [db |-> [d EXCEPT !.queue = r.q], actions |-> r.actions]
          [] t = "Save" -> same(d)
          [] t = "SyncDatabase" -> same(sync(d, command.artists, command.albums, command.songs))
          [] t = "QueueUpdate" ->
                IF item(command.index) # NoQueue
                THEN same(write(command.index, command.new_data))
                ELSE same(d)
          [] t = "QueueAdd" ->
                IF item(command.index) # NoQueue
                THEN same(write(command.index, add_to_end(item(command.index), command.new_data).q))
                ELSE same(d)
          [] t = "QueueInsert" ->
                IF item(command.index) # NoQueue
                THEN same(write(command.index,
                                insert(item(command.index), command.new_data, command.pos).q))
                ELSE same(d)
          [] t = "QueueRemove" ->
                same([d EXCEPT !.queue = remove_by_index(@, command.index, 0).q])
          [] t = "QueueGoto" ->
                LET r == set_index_inner(d.queue, command.index, 0, <<>>)
                IN  [db |-> [d EXCEPT !.queue = r.q], actions |-> r.actions]
          [] t = "QueueSetShuffle" ->
                same([d EXCEPT !.queue = set_shuffle(@, command.path, command.map, command.next)])
          [] t = "AddSong" -> same(add_song_new(d, command.song).db)
          [] t = "AddAlbum" -> same(add_album_new(d, command.album).db)
          [] t = "AddArtist" -> same(add_artist_new(d, command.artist).db)
          [] t = "ModifySong" -> same(update_song(d, command.song))
          [] t = "ModifyAlbum" -> same(update_album(d, command.album))
          [] t = "ModifyArtist" -> same(update_artist(d, command.artist))
          [] t = "RemoveSong" -> same(remove_song(d, command.id))
          [] t = "RemoveAlbum" -> same(remove_album(d, command.id))
          [] t = "RemoveArtist" -> same(remove_artist(d, command.id))
          [] t = "SetLibraryDirectory" -> same([d EXCEPT !.lib_directory = command.dir])

\* a handle_actions that does not ask whether the database is a client's
handle_action_on_client(d, action) ==
    IF action.type = "AddRandomSong"
    THEN {QueueAdd(action.path, Into(QSong(song))) : song \in DOMAIN d.songs}
    ELSE {QueueSetShuffle(action.path, shuf, next) :
            shuf \in shuffle_new_maps(action.len, action.next),
            next \in shuffle_new_nexts(action.len)}

\* the commands handle_actions may apply for one action: none on a client, a
\* QueueAdd of any song of the catalog, a QueueSetShuffle of any shuffle drawn
handle_action(d, action) ==
    IF is_client(d) THEN {}
    ELSE IF action.type = "AddRandomSong"
    THEN {QueueAdd(action.path, Into(QSong(song))) : song \in DOMAIN d.songs}
    ELSE {QueueSetShuffle(action.path, shuf, next) :
            shuf \in shuffle_new_maps(action.len, action.next),
            next \in shuffle_new_nexts(action.len)}

\* init_connection: the frames written to a new main connection, in order.
\* The vectors of SyncDatabase are the mappings' values in iteration order.
RECURSIVE values_of(_)
values_of(m) ==
    IF DOMAIN m = {} THEN <<>>
    ELSE LET k == CHOOSE x \in DOMAIN m : \A y \in DOMAIN m : x <= y
         IN  <<m[k]>> \o values_of(Del(m, k))

\* an initialization sequence that leaves the queue out
init_connection_no_queue(d) ==
    <<SyncDatabase(values_of(d.artists), values_of(d.albums), values_of(d.songs))>>
    \o (IF d.playing THEN <<Resume>> ELSE <<>>)
    \o <<SetLibraryDirectory(d.lib_directory)>>

\* an initialization sequence that starts with the library directory
init_connection_dir_first(d) ==
    <<SetLibraryDirectory(d.lib_directory),
      SyncDatabase(values_of(d.artists), values_of(d.albums), values_of(d.songs)),
      QueueUpdate(<<>>, d.queue)>>
    \o (IF d.playing THEN <<Resume>> ELSE <<>>)

init_connection(d) ==
    <<SyncDatabase(values_of(d.artists), values_of(d.albums), values_of(d.songs)),
      QueueUpdate(<<>>, d.queue)>>
    \o (IF d.playing THEN <<Resume>> ELSE <<>>)
    \o <<SetLibraryDirectory(d.lib_directory)>>

\* ------------------------------------------------------------- state

VARIABLES
    db,                 \* the server's Database (all fields but update_endpoints)
    update_endpoints,   \* db.update_endpoints: the subscribers, as a Vec of their names
    mutex,              \* the thread that holds the lock on the database, or 0
    stack,              \* per thread: its activations of apply_command, innermost last
    con,                \* per subscriber: the far end of its endpoint
    entered,            \* apply_command calls made so far (their serial numbers)
    applied,            \* the calls whose `match` has run, in that order
    issued,             \* commands submitted by threads so far
    hist,               \* the calls made so far, as records: [op, arg, ret, ..]
    cached_data,        \* a song's cached_data: what the Mutex guards
    cached_data_lock,   \* the thread that holds the lock on cached_data, or 0
    loads,              \* the load_data calls so far, those of spawned threads included
    pc,                 \* per caller of the song's functions: the call it is in
    connection          \* a get connection: both directions, both ends, the files

hub_vars == <<update_endpoints, mutex, stack, con, entered, applied, issued, connection>>

cache_vars == <<cached_data, cached_data_lock, loads, pc>>

vars ==
    <<db, update_endpoints, mutex, stack, con, entered, applied, issued, hist, cache_vars,
      connection>>

\* ------------------------------------------------------------- song cache
\* Option<Result<Arc<Vec<u8>>, JoinHandle<..>>>: None, Some(Ok(data)) and
\* Some(Err(thread)).  Data is named by the load_data call that read it, a
\* thread by the position of its load_data call in `loads`.

\* threads calling the functions of one song
MaxCallers == 2

\* calls made on the song in one run of SpecCache
MaxCacheCalls == 3

CacheThreads == 1..MaxCallers

CNone == [tag |-> "None"]

COk(data) == [tag |-> "Ok", data |-> data]

CErr(thread) == [tag |-> "Err", thread |-> thread]

Idle == [op |-> "idle", step |-> "idle", h |-> 0, during |-> 0]

\* Song::new: no cached data, nobody in a call
CacheInit ==
    /\ cached_data = CNone
    /\ cached_data_lock = 0
    /\ loads = <<>>
    /\ pc = [t \in CacheThreads |-> Idle]

\* ------------------------------------------------------------- replication hub
\* Spec: threads submit commands to the server's database, which lives behind
\* one mutex; subscribers are main connections (byte sinks, opened with the
\* initialization sequence) and in-process endpoints (a channel or a callback).

\* commands submitted by threads in one run
MaxCmds == 2
\* threads that submit commands
MaxThreads == 2
\* main connections
MaxCons == 2
\* in-process endpoints
MaxLocal == 1

Threads == 1..MaxThreads

Subs == 1..(MaxCons + MaxLocal)

\* the subscriber is a main connection
IsCon(s) == s <= MaxCons

\* a frame: the discriminant of the variant, then its fields in order
to_bytes_vec(command) ==
    LET t == command.type
    IN  CASE t \in {"Resume", "Pause", "Stop", "NextSong", "Save"} -> <<t>>
          [] t = "SyncDatabase" -> <<t, command.artists, command.albums, command.songs>>
          [] t \in {"QueueUpdate", "QueueAdd"} -> <<t, command.index, command.new_data>>
          [] t = "QueueInsert" -> <<t, command.index, command.pos, command.new_data>>
          [] t \in {"QueueRemove", "QueueGoto"} -> <<t, command.index>>
          [] t = "QueueSetShuffle" -> <<t, command.path, command.map, command.next>>
          [] t \in {"AddSong", "ModifySong"} -> <<t, command.song>>
          [] t \in {"AddAlbum", "ModifyAlbum"} -> <<t, command.album>>
          [] t \in {"AddArtist", "ModifyArtist"} -> <<t, command.artist>>
          [] t \in {"RemoveSong", "RemoveAlbum", "RemoveArtist"} -> <<t, command.id>>
          [] t = "SetLibraryDirectory" -> <<t, command.dir>>

\* the command a frame decodes to
from_bytes(s) ==
    LET t == s[1]
    IN  CASE t \in {"Resume", "Pause", "Stop", "NextSong", "Save"} -> [type |-> t]
          [] t = "SyncDatabase" -> SyncDatabase(s[2], s[3], s[4])
          [] t = "QueueUpdate" -> QueueUpdate(s[2], s[3])
          [] t = "QueueAdd" -> QueueAdd(s[2], s[3])
          [] t = "QueueInsert" -> QueueInsert(s[2], s[3], s[4])
          [] t = "QueueRemove" -> QueueRemove(s[2])
          [] t = "QueueGoto" -> QueueGoto(s[2])
          [] t = "QueueSetShuffle" -> QueueSetShuffle(s[2], s[3], s[4])
          [] t = "AddSong" -> AddSong(s[2])
          [] t = "ModifySong" -> ModifySong(s[2])
          [] t = "AddAlbum" -> AddAlbum(s[2])
          [] t = "ModifyAlbum" -> ModifyAlbum(s[2])
          [] t = "AddArtist" -> AddArtist(s[2])
          [] t = "ModifyArtist" -> ModifyArtist(s[2])
          [] t = "RemoveSong" -> RemoveSong(s[2])
          [] t = "RemoveAlbum" -> RemoveAlbum(s[2])
          [] t = "RemoveArtist" -> RemoveArtist(s[2])
          [] t = "SetLibraryDirectory" -> SetLibraryDirectory(s[2])

\* what arrives at a subscriber: the payload, and the serial number of the
\* apply_command call that sent it (0 for the initialization sequence)
Frame(serial, data) == [serial |-> serial, data |-> data]

\* `bytes` / `arc` of broadcast_update before the first endpoint that needs them
NoBytes == <<>>

NoArc == [type |-> "None"]

\* the loop of broadcast_update from endpoint i on; acc is [con, remove, bytes,
\* arc].  A write to a byte sink or a send on a channel fails when the far end
\* is gone; a callback is just called.
RECURSIVE broadcast_loop(_, _, _, _, _)
broadcast_loop(eps, i, acc, update, serial) ==
    IF i >= Len(eps) THEN acc
    ELSE
    LET s == At(eps, i)
        udep == acc.con[s].kind
        fails == acc.con[s].broken
        bytes == IF acc.bytes = NoBytes THEN to_bytes_vec(update) ELSE acc.bytes
        arc == IF acc.arc.type = "None" THEN update ELSE acc.arc
    IN  CASE udep = "Bytes" ->
                broadcast_loop(eps, i + 1,
                    [acc EXCEPT !.bytes = bytes,
                                !.remove = IF fails THEN Append(@, i) ELSE @,
                                !.con[s].recv = IF fails THEN @
                                                ELSE Append(@, Frame(serial, bytes))],
                    update, serial)
          [] udep = "CmdChannel" ->
                broadcast_loop(eps, i + 1,
                    [acc EXCEPT !.arc = arc,
                                !.remove = IF fails THEN Append(@, i) ELSE @,
                                !.con[s].recv = IF fails THEN @
                                                ELSE Append(@, Frame(serial, arc))],
                    update, serial)
          [] udep = "Custom" ->
                broadcast_loop(eps, i + 1,
                    [acc EXCEPT !.con[s].recv = Append(@, Frame(serial, update))],
                    update, serial)

\* a removal that walks `remove` front to back, so that later indices have
\* shifted by the time they are used
RECURSIVE remove_endpoints_forward(_, _)
remove_endpoints_forward(eps, remove) ==
    IF remove = <<>> THEN eps
    ELSE remove_endpoints_forward(
             IF Has(eps, Head(remove)) THEN VecRemove(eps, Head(remove)) ELSE eps,
             Tail(remove))

\* for i in remove.into_iter().rev() { self.update_endpoints.remove(i); }
RECURSIVE remove_endpoints(_, _)
remove_endpoints(eps, remove) ==
    IF remove = <<>> THEN eps
    ELSE remove_endpoints(VecRemove(eps, remove[Len(remove)]),
                          SubSeq(remove, 1, Len(remove) - 1))

\* broadcast_update: [eps: update_endpoints afterwards, con: the far ends
\* afterwards]; an endpoint that is dropped from the registry is closed
broadcast_update(eps, cons, update, serial) ==
    LET acc == broadcast_loop(eps, 0,
                   [con |-> cons, remove |-> <<>>, bytes |-> NoBytes, arc |-> NoArc],
                   update, serial)
        kept == remove_endpoints(eps, acc.remove)
        here(v) == {v[n] : n \in 1..Len(v)}
    IN  [eps |-> kept,
         con |-> [s \in DOMAIN acc.con |->
                    IF s \in here(eps) \ here(kept)
                    THEN [acc.con[s] EXCEPT !.state = "closed"]
                    ELSE acc.con[s]]]

\* the steps of apply_command, in order
apply_command_match_first == <<"match", "broadcast", "actions">>

apply_command_steps == <<"broadcast", "match", "actions">>

\* Mutex::lock returns once no thread holds the lock
can_lock_unguarded(m) == TRUE

can_lock(m) == m = 0

\* ------------------------------------------------------------- hub actions

\* a subscriber nobody has connected yet
NewCon == [state |-> "new", kind |-> "Bytes", broken |-> FALSE, recv |-> <<>>, init |-> 0]

\* a connection nobody has written to, without files
NoConnection ==
    [up |-> <<>>, down |-> <<>>, client |-> "idle", server |-> "open",
     disk |-> [l \in {} |-> <<>>]]

HubInit ==
    /\ connection = NoConnection
    /\ update_endpoints = <<>>
    /\ mutex = 0
    /\ stack = [t \in Threads |-> <<>>]
    /\ con = [s \in Subs |-> NewCon]
    /\ entered = 0
    /\ applied = <<>>
    /\ issued = 0

\* the catalog of scenario E1, as the mappings of a database file
E1Artists == Put(EmptyMap, 0, [id |-> 0, albums |-> <<0>>, singles |-> <<>>])

E1Albums == Put(EmptyMap, 0, [id |-> 0, artist |-> 0, songs |-> <<0>>])

E1Songs == Put(EmptyMap, 0, [id |-> 0, album |-> 0, artist |-> 0])

\* the server starts from a new database (--init) or from the database file
Init ==
    /\ db \in {new_empty("dbfile", "lib"),
               load_database("dbfile", "lib", E1Artists, E1Albums, E1Songs)}
    /\ HubInit
    /\ hist = <<>>
    /\ CacheInit

\* queues a client sends as new_data
NewData ==
    { Into(QSong(0)), Into(QRandom(<<>>)),
      Into(QShuffle(0, <<0, 1>>, <<Into(QSong(0)), Into(QSong(1))>>, 1)) }

\* the commands a thread may submit in state d
Commands(d) ==
    {Resume, Pause, Stop, NextSong, Save, SetLibraryDirectory("lib2")}
    \cup {SyncDatabase(values_of(E1Artists), values_of(E1Albums), values_of(E1Songs))}
    \cup {QueueAdd(<<>>, q) : q \in NewData}
    \cup {QueueUpdate(<<>>, Into(QFolder(0, <<Into(QSong(0)), Into(QSong(1))>>, "")))}
    \cup {QueueInsert(<<>>, 0, Into(QSong(MaxId))), QueueRemove(<<0>>), QueueGoto(<<0>>)}
    \cup {AddSong([id |-> 0, album |-> 0, artist |-> 0]),
          AddAlbum([id |-> 0, artist |-> 0, songs |-> <<>>]),
          AddArtist([id |-> 0, albums |-> <<>>, singles |-> <<>>])}
    \cup {ModifySong([d.songs[k] EXCEPT !.album = None]) : k \in DOMAIN d.songs}
    \cup {RemoveSong(0)}

\* a new activation of apply_command; eps0 remembers who was registered
Activation(command, serial, eps) ==
    [command |-> command, serial |-> serial, step |-> 1, actions |-> <<>>, eps0 |-> eps]

Top(t) == stack[t][Len(stack[t])]

\* stack[t] with its innermost activation replaced
WithTop(t, a) == [stack EXCEPT ![t] = [@ EXCEPT ![Len(@)] = a]]

\* thread t is at the given step of its innermost apply_command
AtStep(t, name) == stack[t] # <<>> /\ apply_command_steps[Top(t).step] = name

\* a thread takes the lock and calls apply_command; the threads are
\* interchangeable, so they are named in the order of their submissions
Call(t) ==
    \E command \in Commands(db) :
        /\ issued < MaxCmds
        /\ t = 1 + (issued % MaxThreads)
        /\ stack[t] = <<>>
        /\ can_lock(mutex)
        /\ mutex' = t
        /\ stack' = [stack EXCEPT ![t] = <<Activation(command, entered + 1, update_endpoints)>>]
        /\ entered' = entered + 1
        /\ issued' = issued + 1
        /\ UNCHANGED <<db, update_endpoints, con, applied, hist, cache_vars, connection>>

\* self.broadcast_update(&command)
Broadcast(t) ==
    /\ AtStep(t, "broadcast")
    /\ LET r == broadcast_update(update_endpoints, con, Top(t).command, Top(t).serial)
       IN  /\ update_endpoints' = r.eps
           /\ con' = r.con
    /\ stack' = WithTop(t, [Top(t) EXCEPT !.step = @ + 1])
    /\ UNCHANGED <<db, mutex, entered, applied, issued, hist, cache_vars, connection>>

\* match command { .. }
Match(t) ==
    /\ AtStep(t, "match")
    /\ LET r == apply_match(db, Top(t).command)
       IN  /\ db' = r.db
           /\ stack' = WithTop(t, [Top(t) EXCEPT !.step = @ + 1, !.actions = r.actions])
    /\ applied' = Append(applied, [serial |-> Top(t).serial, thread |-> t,
                                   nested |-> Len(stack[t]) > 1])
    /\ UNCHANGED <<update_endpoints, mutex, con, entered, issued, hist, cache_vars, connection>>

\* one turn of the loop of handle_actions: the action is dropped, or a command
\* is applied for it
HandleAction(t) ==
    /\ AtStep(t, "actions")
    /\ Top(t).actions # <<>>
    /\ LET action == Head(Top(t).actions)
           rest == WithTop(t, [Top(t) EXCEPT !.actions = Tail(@)])
       IN  IF handle_action(db, action) = {}
           THEN stack' = rest /\ entered' = entered
           ELSE \E command \in handle_action(db, action) :
                   /\ stack' = [rest EXCEPT ![t] =
                                   Append(@, Activation(command, entered + 1, update_endpoints))]
                   /\ entered' = entered + 1
    /\ UNCHANGED <<db, update_endpoints, mutex, con, applied, issued, hist, cache_vars, connection>>

\* apply_command returns; the outermost call gives the lock back
Return(t) ==
    /\ AtStep(t, "actions")
    /\ Top(t).actions = <<>>
    /\ stack' = [stack EXCEPT ![t] = SubSeq(@, 1, Len(@) - 1)]
    /\ mutex' = IF Len(stack[t]) = 1 THEN 0 ELSE mutex
    /\ UNCHANGED <<db, update_endpoints, con, entered, applied, issued, hist, cache_vars, connection>>

\* a main connection is accepted: under the lock the initialization sequence
\* is written to it and it is registered as a byte sink
Accept(s) ==
    /\ IsCon(s)
    /\ con[s].state = "new"
    /\ \A r \in 1..(s - 1) : con[r].state # "new"
    /\ can_lock(mutex)
    /\ LET frames == init_connection(db)
       IN  con' = [con EXCEPT ![s] =
                     [state |-> "open", kind |-> "Bytes", broken |-> FALSE,
                      recv |-> [n \in 1..Len(frames) |-> Frame(0, to_bytes_vec(frames[n]))],
                      init |-> Len(frames)]]
    /\ update_endpoints' = Append(update_endpoints, s)
    /\ UNCHANGED <<db, mutex, stack, entered, applied, issued, hist, cache_vars, connection>>

\* database.lock().unwrap().update_endpoints.push(..): an in-process endpoint,
\* set up when the program starts
Register(s) ==
    \E udep \in {"CmdChannel", "Custom"} :
        /\ ~IsCon(s)
        /\ con[s].state = "new"
        /\ issued = 0
        /\ can_lock(mutex)
        /\ con' = [con EXCEPT ![s] = [@ EXCEPT !.state = "open", !.kind = udep]]
        /\ update_endpoints' = Append(update_endpoints, s)
        /\ UNCHANGED <<db, mutex, stack, entered, applied, issued, hist, cache_vars, connection>>

\* the far end of a byte sink or of a channel goes away; the server can only
\* notice at its next write, so the loss is taken when a broadcast is due
ConnLoss(s) ==
    /\ \E t \in Threads : AtStep(t, "broadcast")
    /\ con[s].state = "open"
    /\ con[s].kind # "Custom"
    /\ ~con[s].broken
    /\ con' = [con EXCEPT ![s].broken = TRUE]
    /\ UNCHANGED <<db, update_endpoints, mutex, stack, entered, applied, issued, hist, cache_vars, connection>>

Next ==
    \/ \E t \in Threads : Call(t)
    \/ \E t \in Threads : Broadcast(t)
    \/ \E t \in Threads : Match(t)
    \/ \E t \in Threads : HandleAction(t)
    \/ \E t \in Threads : Return(t)
    \/ \E s \in Subs : Accept(s)
    \/ \E s \in Subs : Register(s)
    \/ \E s \in Subs : ConnLoss(s)

Spec == Init /\ [][Next]_vars

\* ------------------------------------------------------------- hub claims

Range(v) == {v[n] : n \in 1..Len(v)}

\* what a subscriber mirrors of a database
View(d) ==
    [artists |-> d.artists, albums |-> d.albums, songs |-> d.songs,
     queue |-> d.queue, playing |-> d.playing]

\* apply_command on a client: there is no endpoint to broadcast to, the match
\* runs, and handle_actions drops every action
client_apply_command(d, command) == apply_match(d, command).db

\* a client that decodes and applies the frames in order
RECURSIVE apply_frames(_, _)
apply_frames(d, frames) ==
    IF frames = <<>> THEN d
    ELSE apply_frames(client_apply_command(d, from_bytes(Head(frames).data)), Tail(frames))

AppliedSerials == {applied[n].serial : n \in 1..Len(applied)}

\* the frames of subscriber s for the commands the server has applied too,
\* behind its initialization sequence
Caught(s) ==
    SelectSeq(con[s].recv, LAMBDA f : f.serial = 0 \/ f.serial \in AppliedSerials)

\* the main connection is registered and has lost nothing
Connected(s) == IsCon(s) /\ con[s].state = "open" /\ ~con[s].broken

\* C1: a main subscriber that joined through the initialization sequence and
\* applies every frame it receives, in order, to a client-side database has
\* after each command the server applied (the QueueAdd / QueueSetShuffle the
\* server issues for the actions of NextSong / QueueGoto included) the same
\* artists, albums, songs, queue and playing flag as the server, as long as
\* its connection is not lost.
C1_SubscriberMirrorsServer ==
    \A s \in Subs :
        Connected(s) => View(apply_frames(new_clientside, Caught(s))) = View(db)

\* a subscriber that joined a server with a non-empty queue has received a
\* command the server issued itself, and every command has returned
C1_Witness ==
    /\ mutex = 0
    /\ \E s \in Subs :
          /\ Connected(s)
          /\ con[s].recv[2].data[3] # EmptyQueue
          /\ \E n \in 1..Len(applied), k \in 1..Len(con[s].recv) :
                applied[n].nested /\ con[s].recv[k].serial = applied[n].serial

\* the serial numbers of the commands a subscriber received, in order
Received(s) ==
    [n \in 1..(Len(con[s].recv) - con[s].init) |-> con[s].recv[con[s].init + n].serial]

AppliedOrder == [n \in 1..Len(applied) |-> applied[n].serial]

\* what v and w both hold, they hold in the same relative order
SameOrder(v, w) ==
    \A i, j \in 1..Len(v), a, b \in 1..Len(w) :
        (i < j /\ w[a] = v[i] /\ w[b] = v[j]) => a < b

\* C2: with several threads submitting commands, every apply_command (its
\* broadcast, its mutation and the nested commands it issues) runs while its
\* thread holds the mutex; all subscribers receive the commands in one common
\* order, which is the order in which the server mutated its state: no two
\* subscribers see two commands in different relative order.
C2_OneOrderUnderMutex ==
    /\ \A t \in Threads : stack[t] # <<>> => mutex = t
    /\ \A s \in Subs : SameOrder(Received(s), AppliedOrder)
    /\ \A s, r \in Subs : SameOrder(Received(s), Received(r))

\* two threads have each had a command applied, and two subscribers hold
\* the frames of both
C2_Witness ==
    \E n, m \in 1..Len(applied) :
        /\ applied[n].thread # applied[m].thread
        /\ \E s, r \in Subs :
              /\ s # r
              /\ {applied[n].serial, applied[m].serial} \subseteq Range(Received(s))
              /\ {applied[n].serial, applied[m].serial} \subseteq Range(Received(r))

\* subscriber s holds the frame of activation a
Delivered(s, a) ==
    \E n \in 1..Len(con[s].recv) :
        /\ con[s].recv[n].serial = a.serial
        /\ IF con[s].kind = "Bytes"
           THEN con[s].recv[n].data = to_bytes_vec(a.command)
           ELSE con[s].recv[n].data = a.command

\* the step in which thread t runs the match of its innermost apply_command
MatchStep(t) ==
    /\ stack[t] # <<>>
    /\ Len(applied') = Len(applied) + 1
    /\ applied'[Len(applied')].serial = Top(t).serial

\* the step in which the innermost apply_command of thread t returns
ReturnStep(t) == Len(stack'[t]) < Len(stack[t])

\* C3: within one apply_command call the command has been delivered to every
\* subscriber that was registered when the call began (and whose write did
\* not fail) before the server's state is mutated and before the call
\* returns; every byte sink among them has received the same bytes.
C3_BroadcastBeforeMutation ==
    [][ \A t \in Threads :
            (MatchStep(t) \/ ReturnStep(t)) =>
                \A s \in Range(Top(t).eps0) \cap Range(update_endpoints) :
                    Delivered(s, Top(t)) ]_vars

\* both main connections hold the same AddSong frame, and the server has
\* applied it
C3_Witness ==
    \E n \in 1..Len(applied), i \in 1..Len(con[1].recv), j \in 1..Len(con[2].recv) :
        /\ con[1].recv[i].serial = applied[n].serial
        /\ con[2].recv[j].serial = applied[n].serial
        /\ con[1].recv[i].data[1] = "AddSong"
        /\ con[1].recv[i].data = con[2].recv[j].data

\* the step in which thread t runs the broadcast of its innermost apply_command
BroadcastStep(t) == AtStep(t, "broadcast") /\ stack'[t] # stack[t]

\* C4: in a broadcast every subscriber whose write or send fails leaves the
\* registry and gets nothing, now or later; every other subscriber stays,
\* in the order they were in, and gets the command - also when several
\* subscribers fail in the same broadcast.
C4_FailedSubscribersRemoved ==
    [][ /\ \A t \in Threads :
              BroadcastStep(t) =>
                  /\ update_endpoints' =
                         SelectSeq(update_endpoints, LAMBDA s : ~con[s].broken)
                  /\ \A s \in Range(update_endpoints) :
                        IF con[s].broken
                        THEN con'[s].recv = con[s].recv /\ con'[s].state = "closed"
                        ELSE /\ Len(con'[s].recv) = Len(con[s].recv) + 1
                             /\ con'[s].recv[Len(con'[s].recv)].serial = Top(t).serial
                             /\ con'[s].state = "open"
        /\ \A s \in Subs :
              con[s].state = "closed" =>
                  con'[s] = con[s] /\ s \notin Range(update_endpoints') ]_vars

\* the first command found two subscribers gone and reached the third
C4_Witness ==
    /\ entered = 1
    /\ Cardinality({s \in Subs : con[s].state = "closed"}) = 2
    /\ \E s \in Range(update_endpoints) : 1 \in Range(Received(s))

\* the step in which main connection s is accepted
AcceptStep(s) == IsCon(s) /\ con[s].state = "new" /\ con'[s].state = "open"

\* the initialization sequence main connection s received, decoded
InitFrames(c) == [n \in 1..c.init |-> from_bytes(c.recv[n].data)]

\* C5 as claimed: the initialization sequence of a main connection ends with
\* an InitComplete frame.
C5_InitEndsWithInitComplete ==
    \A s \in Subs :
        (IsCon(s) /\ con[s].state # "new") =>
            InitFrames(con[s])[con[s].init].type = "InitComplete"

\* C5 amended: the initialization sequence written to a newly accepted main
\* connection is, in this order: SyncDatabase(all artists, all albums, all
\* songs), QueueUpdate([], current queue), Resume if and only if the server
\* is playing, and SetLibraryDirectory(path) as the final frame; there is no
\* InitComplete frame.
C5_InitEndsWithLibraryDirectory ==
    [][ \A s \in Subs :
            AcceptStep(s) =>
                LET f == InitFrames(con'[s])
                    all(m) == {m[k] : k \in DOMAIN m}
                IN  /\ Len(con'[s].recv) = Len(f)
                    /\ Len(f) = IF db.playing THEN 4 ELSE 3
                    /\ f[1].type = "SyncDatabase"
                    /\ Range(f[1].artists) = all(db.artists)
                    /\ Len(f[1].artists) = Cardinality(DOMAIN db.artists)
                    /\ Range(f[1].albums) = all(db.albums)
                    /\ Len(f[1].albums) = Cardinality(DOMAIN db.albums)
                    /\ Range(f[1].songs) = all(db.songs)
                    /\ Len(f[1].songs) = Cardinality(DOMAIN db.songs)
                    /\ f[2].type = "QueueUpdate"
                    /\ f[2].index = <<>>
                    /\ f[2].new_data = db.queue
                    /\ db.playing => f[3].type = "Resume"
                    /\ f[Len(f)].type = "SetLibraryDirectory"
                    /\ f[Len(f)].dir = db.lib_directory
                    /\ \A n \in 1..Len(f) : f[n].type # "InitComplete" ]_vars

\* a connection was accepted while the server was playing a non-empty queue
C5_Witness ==
    \E s \in Subs :
        /\ IsCon(s)
        /\ con[s].init = 4
        /\ InitFrames(con[s])[3].type = "Resume"
        /\ InitFrames(con[s])[2].new_data # EmptyQueue


\* ------------------------------------------------------------- catalog calls
\* SpecCatalog: one thread calls the catalog operations, directly
\* (add_*_new) or through the arms of apply_command.

\* Song::new leaves id 0 for add_song_new to overwrite
SongPayloads == [id : {0}, album : OptId, artist : OptId]

AlbumPayloads == [id : {0}, artist : OptId, songs : IdLists]

ArtistPayloads == [id : {0}, albums : IdLists, singles : IdLists]

\* Modify* payloads: an entity of the catalog with one field edited, or an
\* entity under an id the catalog does not hold
SongEdits(d) ==
    {[d.songs[k] EXCEPT !.album = a] : k \in DOMAIN d.songs, a \in OptId}
    \cup {[d.songs[k] EXCEPT !.artist = a] : k \in DOMAIN d.songs, a \in OptId}
    \cup {[id |-> first_free_key(d.songs, 0), album |-> None, artist |-> None]}

AlbumEdits(d) ==
    {[d.albums[k] EXCEPT !.artist = a] : k \in DOMAIN d.albums, a \in OptId}
    \cup {[d.albums[k] EXCEPT !.songs = l] : k \in DOMAIN d.albums, l \in IdLists}
    \cup {[id |-> first_free_key(d.albums, 0), artist |-> None, songs |-> <<>>]}

ArtistEdits(d) ==
    {[d.artists[k] EXCEPT !.albums = l] : k \in DOMAIN d.artists, l \in IdLists}
    \cup {[d.artists[k] EXCEPT !.singles = l] : k \in DOMAIN d.artists, l \in IdLists}
    \cup {[id |-> first_free_key(d.artists, 0), albums |-> <<>>, singles |-> <<>>]}

\* SyncDatabase payloads: an empty catalog, the catalog of scenario E1, and a
\* catalog whose only entities sit under the highest id
SyncPayloads ==
    { SyncDatabase(<<>>, <<>>, <<>>),
      SyncDatabase(<<[id |-> 0, albums |-> <<0>>, singles |-> <<>>]>>,
                   <<[id |-> 0, artist |-> 0, songs |-> <<0>>]>>,
                   <<[id |-> 0, album |-> 0, artist |-> 0]>>),
      SyncDatabase(<<[id |-> MaxId, albums |-> <<>>, singles |-> <<>>]>>,
                   <<[id |-> MaxId, artist |-> MaxId, songs |-> <<>>]>>,
                   <<[id |-> MaxId, album |-> None, artist |-> MaxId]>>) }

Called(op, arg, ret) == hist' = Append(hist, [op |-> op, arg |-> arg, ret |-> ret])

CallAddSong ==
    \E song \in SongPayloads :
        /\ Len(hist) < MaxCalls
        /\ db' = add_song_new(db, song).db
        /\ Called("add_song_new", song, add_song_new(db, song).id)
        /\ UNCHANGED <<hub_vars, cache_vars>>

CallAddAlbum ==
    \E album \in AlbumPayloads :
        /\ Len(hist) < MaxCalls
        /\ db' = add_album_new(db, album).db
        /\ Called("add_album_new", album, add_album_new(db, album).id)
        /\ UNCHANGED <<hub_vars, cache_vars>>

CallAddArtist ==
    \E artist \in ArtistPayloads :
        /\ Len(hist) < MaxCalls
        /\ db' = add_artist_new(db, artist).db
        /\ Called("add_artist_new", artist, add_artist_new(db, artist).id)
        /\ UNCHANGED <<hub_vars, cache_vars>>

CatalogCommands(d) ==
    {ModifySong(x) : x \in SongEdits(d)} \cup {ModifyAlbum(x) : x \in AlbumEdits(d)}
    \cup {ModifyArtist(x) : x \in ArtistEdits(d)}
    \cup {RemoveSong(i) : i \in IdSet} \cup {RemoveAlbum(i) : i \in IdSet}
    \cup {RemoveArtist(i) : i \in IdSet}
    \cup SyncPayloads

\* apply_command on a database without subscribers, for the commands that
\* edit the catalog
CallApply ==
    \E command \in CatalogCommands(db) :
        /\ Len(hist) < MaxCalls
        /\ db' = apply_match(db, command).db
        /\ Called(command.type, command, None)
        /\ UNCHANGED <<hub_vars, cache_vars>>

InitCatalog ==
    /\ db = new_empty("dbfile", "lib")
    /\ HubInit
    /\ hist = <<>>
    /\ CacheInit

NextCatalog == CallAddSong \/ CallAddAlbum \/ CallAddArtist \/ CallApply

SpecCatalog == InitCatalog /\ [][NextCatalog]_vars

\* ------------------------------------------------------------- catalog claims

AddOps == {"add_song_new", "add_album_new", "add_artist_new"}

Last == hist[Len(hist)]

\* the step is a call of `op`
Calls(op) == Len(hist') = Len(hist) + 1 /\ hist'[Len(hist')].op = op

Arg == hist'[Len(hist')].arg

Ret == hist'[Len(hist')].ret

\* m2 is m with `arg` added under the smallest key m does not hold
AddedUnderSmallestFreeKey(m, m2, arg, id) ==
    /\ id \in Nat
    /\ id \notin DOMAIN m
    /\ \A k \in 0..(id - 1) : k \in DOMAIN m
    /\ DOMAIN m2 = DOMAIN m \cup {id}
    /\ m2[id] = [arg EXCEPT !.id = id]
    /\ \A k \in DOMAIN m : m2[k] = m[k]

\* C6: each of add_song_new, add_album_new and add_artist_new returns the
\* smallest non-negative integer that is not a key of its mapping before the
\* call, whatever id the entity carries, and afterwards the mapping holds the
\* entity under that id, with its id field set to it, next to all the entries
\* it held before.
C6_AddReturnsSmallestFreeId ==
    [][ /\ Calls("add_song_new") => AddedUnderSmallestFreeKey(db.songs, db'.songs, Arg, Ret)
        /\ Calls("add_album_new") => AddedUnderSmallestFreeKey(db.albums, db'.albums, Arg, Ret)
        /\ Calls("add_artist_new") =>
              AddedUnderSmallestFreeKey(db.artists, db'.artists, Arg, Ret) ]_vars

\* an add_song_new filled the gap below a song that was there, under an id
\* other than the one its entity carried
C6_Witness ==
    /\ hist # <<>>
    /\ Last.op = "add_song_new"
    /\ Last.ret # Last.arg.id
    /\ Last.ret \in DOMAIN db.songs
    /\ db.songs[Last.ret].id = Last.ret
    /\ \E i \in 1..Len(hist) : hist[i].op = "SyncDatabase"

\* the command that takes the entry with this id out of the mapping `op` adds to
RemoveOf(op) ==
    CASE op = "add_song_new" -> "RemoveSong"
      [] op = "add_album_new" -> "RemoveAlbum"
      [] op = "add_artist_new" -> "RemoveArtist"

\* calls i < j of the same add_*_new returned the same id
SameIdAgain(i, j) ==
    /\ i < j
    /\ hist[i].op \in AddOps
    /\ hist[j].op = hist[i].op
    /\ hist[j].ret = hist[i].ret

\* C7 as claimed: within one run an id returned by add_song_new (add_album_new,
\* add_artist_new) is never returned again by a later call for the same
\* mapping, whatever Add*, Remove* and SyncDatabase commands lie in between.
C7_IdNeverReturnedAgain ==
    \A i, j \in 1..Len(hist) : ~SameIdAgain(i, j)

\* C7 amended: an id returned by add_*_new is returned again by a later call
\* for the same mapping only if a Remove* of that id or a SyncDatabase was
\* applied in between; while the entry stays in the mapping the id is not
\* handed out again.
C7_IdReturnedAgainOnlyAfterRemoval ==
    \A i, j \in 1..Len(hist) :
        SameIdAgain(i, j) =>
            \E k \in (i + 1)..(j - 1) :
                \/ hist[k].op = RemoveOf(hist[i].op) /\ hist[k].arg.id = hist[i].ret
                \/ hist[k].op = "SyncDatabase"

\* a song id was handed out, removed and handed out again
C7_Witness ==
    \E i, j \in 1..Len(hist) :
        /\ SameIdAgain(i, j)
        /\ hist[i].op = "add_song_new"
        /\ \E k \in (i + 1)..(j - 1) : hist[k].op = "RemoveSong"

\* every entry of album.songs is a song of that album, every entry of
\* artist.albums an album of that artist
LinkClosure(d) ==
    /\ \A a \in DOMAIN d.albums : \A n \in 1..Len(d.albums[a].songs) :
          LET s == d.albums[a].songs[n]
          IN  s \in DOMAIN d.songs /\ d.songs[s].album = d.albums[a].id
    /\ \A r \in DOMAIN d.artists : \A n \in 1..Len(d.artists[r].albums) :
          LET a == d.artists[r].albums[n]
          IN  a \in DOMAIN d.albums /\ d.albums[a].artist = d.artists[r].id

\* the call adds an entity that carries no links of its own
LinkFreeAdd(call) ==
    \/ call.op = "add_song_new"
    \/ call.op = "add_album_new" /\ call.arg.songs = <<>>
    \/ call.op = "add_artist_new" /\ call.arg.albums = <<>> /\ call.arg.singles = <<>>

\* the catalog was built from the empty one by add_*_new calls only, each
\* adding an entity whose own link lists are empty
Seeded == \A i \in 1..Len(hist) : LinkFreeAdd(hist[i])

\* C8 as claimed: in every catalog state reachable through the commands
\* (Add*, Modify*, Remove*, SyncDatabase) every album.songs entry s has
\* songs[s].album == album.id and every artist.albums entry a has
\* albums[a].artist == artist.id.
C8_LinkClosureAlways == LinkClosure(db)

\* C8 amended: the link closure holds in every catalog state built from the
\* empty catalog by AddArtist / AddAlbum / AddSong alone with entities whose
\* own albums / songs / singles lists are empty; Modify*, Remove*,
\* SyncDatabase and added entities that bring link lists do not keep it.
C8_LinkClosureWhenSeeded == Seeded => LinkClosure(db)

\* a seeded catalog in which both kinds of link exist
C8_Witness ==
    /\ Seeded
    /\ \E a \in DOMAIN db.albums : db.albums[a].songs # <<>>
    /\ \E r \in DOMAIN db.artists : db.artists[r].albums # <<>>

\* m2 is m with id appended to the list `field` of entry k (if m holds k)
PushedTo(m, m2, k, field, id) ==
    /\ DOMAIN m2 = DOMAIN m
    /\ \A x \in DOMAIN m :
          m2[x] = IF x = k THEN [m[x] EXCEPT ![field] = Append(@, id)] ELSE m[x]

\* the three calls of scenario E1
E1Calls ==
    << [op |-> "add_artist_new", arg |-> [id |-> 0, albums |-> <<>>, singles |-> <<>>], ret |-> 0],
       [op |-> "add_album_new", arg |-> [id |-> 0, artist |-> 0, songs |-> <<>>], ret |-> 0],
       [op |-> "add_song_new", arg |-> [id |-> 0, album |-> 0, artist |-> 0], ret |-> 0] >>

\* C9: add_album_new appends the new id to its artist's albums exactly when
\* that artist exists; add_song_new appends the new id to album.songs when the
\* song's album is set and exists, otherwise to artist.singles when the artist
\* exists; nothing else changes in the parents' mappings.  From an empty
\* catalog artist -> 0, album{artist 0} -> 0, song{album 0, artist 0} -> 0
\* gives artists[0].albums = [0], albums[0].songs = [0], artists[0].singles = [].
C9_AddLinksOneParent ==
    /\ [][ /\ Calls("add_album_new") =>
                /\ PushedTo(db.artists, db'.artists, Arg.artist, "albums", Ret)
                /\ db'.songs = db.songs
           /\ Calls("add_song_new") =>
                IF Arg.album \in DOMAIN db.albums
                THEN /\ PushedTo(db.albums, db'.albums, Arg.album, "songs", Ret)
                     /\ db'.artists = db.artists
                ELSE /\ PushedTo(db.artists, db'.artists, Arg.artist, "singles", Ret)
                     /\ db'.albums = db.albums
           /\ Calls("add_artist_new") => db'.albums = db.albums /\ db'.songs = db.songs ]_vars
    /\ [](hist = E1Calls =>
            /\ db.artists[0].albums = <<0>>
            /\ db.albums[0].songs = <<0>>
            /\ db.artists[0].singles = <<>>)

\* scenario E1 has run
C9_Witness == hist = E1Calls /\ DOMAIN db.songs = {0}

\* every entry of artist.singles is a song without album of that artist
SinglesClosure(d) ==
    \A r \in DOMAIN d.artists : \A n \in 1..Len(d.artists[r].singles) :
        LET s == d.artists[r].singles[n]
        IN  /\ s \in DOMAIN d.songs
            /\ d.songs[s].album = None
            /\ d.songs[s].artist = d.artists[r].id

\* C10 as claimed, for entities added with empty link lists: in every catalog
\* state reached from the empty catalog by add_artist_new / add_album_new /
\* add_song_new every id in an artist's singles resolves to a song whose album
\* is absent and whose artist is that artist.
C10_SinglesClosure == Seeded => SinglesClosure(db)

\* a song whose album is set but not in the catalog was added to its artist
C10_Witness ==
    /\ Seeded
    /\ \E r \in DOMAIN db.artists : \E n \in 1..Len(db.artists[r].singles) :
          LET s == db.artists[r].singles[n]
          IN  s \in DOMAIN db.songs /\ db.songs[s].album # None

\* ------------------------------------------------------------- queue calls
\* The queue functions, called on the queue of a database: the queue trees
\* the calls start from are drawn from bounded sets, and each call records
\* what it returned, the actions it pushed and the queue it left.

\* the most children a drawn container holds
MaxLen == 3

\* the highest total of a drawn Loop
MaxTotal == 2

\* calls made on the queue in one run of SpecQueue
MaxSteps == 5

Disabled(q) == [q EXCEPT !.enabled = FALSE]

SeqsUpTo(S, n) == UNION {[1..k -> S] : k \in 0..n}

\* the queue trees the calls start from.  Folders of up to MaxLen songs, one
\* of them disabled; loops, randoms and shuffles over a song, an empty
\* folder, a folder of two songs and a disabled folder; shuffles at
\* current = 0 with every permutation as the map when next = 0 and with one
\* map for every other next (the out-of-range elems.len() included); folders
\* that nest a loop or a random
QueueTrees ==
    LET Song(id) == Into(QSong(id))
        Folder(s) == Into(QFolder(0, s, ""))
        Inner == {Song(0), Folder(<<>>), Folder(<<Song(0), Song(1)>>),
                  Disabled(Folder(<<Song(0), Song(1)>>))}
        Folders == {Folder(s) : s \in SeqsUpTo({Song(0), Song(1), Song(2), Disabled(Song(0))},
                                               MaxLen)}
        Loops == {Into(QLoop(total, 0, x)) : total \in 0..MaxTotal, x \in Inner}
        Randoms == {Into(QRandom(s)) : s \in SeqsUpTo({Song(0), Song(1)}, MaxLen)}
        Shuffles ==
            UNION {{Into(QShuffle(0, map, elems, 0)) : map \in Shuffled(0..(Len(elems) - 1))}
                   \cup {Into(QShuffle(0, [k \in 1..Len(elems) |-> k - 1], elems, next)) :
                            next \in 1..MaxLen}
                   : elems \in SeqsUpTo(Inner, MaxLen)}
        Nested == {Folder(<<x, y>>) :
                     x \in Loops \cup Randoms \cup {Disabled(l) : l \in Loops},
                     y \in {Song(1), Disabled(Song(1))}}
    IN  Folders \cup Loops \cup Randoms \cup Shuffles \cup Nested

\* the values an action pushed by init can carry, its random draws made
draw(action) ==
    IF action.type = "SetShuffle"
    THEN {[type |-> "SetShuffle", path |-> action.path, new_map |-> m, new_next |-> n] :
            m \in shuffle_new_maps(action.len, action.next),
            n \in shuffle_new_nexts(action.len)}
    ELSE {action}

RECURSIVE draws(_)
draws(actions) ==
    IF actions = <<>> THEN {<<>>}
    ELSE {<<a>> \o rest : a \in draw(Head(actions)), rest \in draws(Tail(actions))}

QCalled(op, arg, ret, actions) ==
    hist' = Append(hist, [op |-> op, arg |-> arg, ret |-> ret,
                          actions |-> actions, q |-> db'.queue])

\* advance_index_db without handle_actions: advance_index_inner(vec![], actions).
\* init leaves the queue as it is, so the calls after it are those made
\* without it and are not repeated
CallAdvanceIndex ==
    LET r == advance_index_inner(db.queue, <<>>)
    IN  /\ Len(hist) < MaxSteps
        /\ \A n \in 1..Len(hist) : hist[n].op # "init"
        /\ db' = [db EXCEPT !.queue = r.q]
        /\ \E actions \in draws(r.actions) : QCalled("advance_index", None, r.ret, actions)
        /\ UNCHANGED <<hub_vars, cache_vars>>

\* init(vec![], actions), as the first call
CallInit ==
    /\ hist = <<>>
    /\ db' = db
    /\ \E actions \in draws(init(db.queue, <<>>)) : QCalled("init", None, None, actions)
    /\ UNCHANGED <<hub_vars, cache_vars>>

\* insert(Song(9), index), as the first call
CallInsert ==
    \E index \in 0..(MaxLen + 1) :
        LET r == insert(db.queue, Into(QSong(9)), index)
        IN  /\ hist = <<>>
            /\ db' = [db EXCEPT !.queue = r.q]
            /\ QCalled("insert", index, r.ret, <<>>)
            /\ UNCHANGED <<hub_vars, cache_vars>>

InitQueue ==
    /\ db \in {[new_empty("dbfile", "lib") EXCEPT !.queue = q] : q \in QueueTrees}
    /\ HubInit
    /\ hist = <<>>
    /\ CacheInit

NextQueue == CallAdvanceIndex \/ CallInit \/ CallInsert

SpecQueue == InitQueue /\ [][NextQueue]_vars

\* ------------------------------------------------------------- queue claims

\* the Song leaves below a node that are reached through enabled nodes only,
\* each named by the positions leading to it; a Loop is passed once per
\* cycle, and once when it loops forever
RECURSIVE LeafPaths(_)
LeafPaths(self) ==
    LET c == self.content
        below(v) == UNION {{<<n>> \o p : p \in LeafPaths(v[n])} : n \in 1..Len(v)}
    IN  IF ~self.enabled THEN {}
        ELSE CASE c.type = "Song" -> {<<>>}
               [] c.type = "Folder" -> below(c.contents)
               [] c.type = "Loop" ->
                     {<<k>> \o p : k \in 1..(IF c.total > 1 THEN c.total ELSE 1),
                                   p \in LeafPaths(c.inner)}
               [] c.type = "Random" -> below(c.q)
               [] c.type = "Shuffle" -> below(c.elems)

\* C11: for every queue tree len() is 0 if the node is disabled, and
\* otherwise the number of Song leaves reachable through enabled nodes, a
\* Loop(n, _, inner) counting max(1, n) times the leaves of inner.
C11_LenCountsLeaves ==
    /\ len(db.queue) = Cardinality(LeafPaths(db.queue))
    /\ ~db.queue.enabled => len(db.queue) = 0

\* a folder of an endless Loop over two songs and a disabled song, after a
\* call: its length is 2
C11_Witness ==
    /\ hist # <<>>
    /\ db.queue.content.type = "Folder"
    /\ Len(db.queue.content.contents) = 2
    /\ db.queue.content.contents[1].enabled
    /\ db.queue.content.contents[1].content.type = "Loop"
    /\ db.queue.content.contents[1].content.total = 0
    /\ ~db.queue.content.contents[2].enabled
    /\ len(db.queue) = 2

\* the queue is an enabled folder of three enabled songs
ThreeSongs ==
    /\ db.queue.enabled
    /\ db.queue.content.type = "Folder"
    /\ Len(db.queue.content.contents) = 3
    /\ \A n \in 1..3 : /\ db.queue.content.contents[n].enabled
                        /\ db.queue.content.contents[n].content.type = "Song"

\* every call so far was advance_index
OnlyAdvance == \A n \in 1..Len(hist) : hist[n].op = "advance_index"

\* C12 as claimed: from a root Folder of three enabled Song children with
\* cursor 0, after k calls of advance_index the cursor is min(k, 2); the
\* third call returns false and the two before it return true.
C12_CursorIsMinOfCallsAndTwo ==
    (ThreeSongs /\ OnlyAdvance) =>
        /\ db.queue.content.index = (IF Len(hist) < 2 THEN Len(hist) ELSE 2)
        /\ \A n \in 1..Len(hist) : (n <= 2 => hist[n].ret) /\ (n = 3 => ~hist[n].ret)

\* C12 amended: from a root Folder of three enabled Song children with
\* cursor 0, the first two calls of advance_index return true and leave the
\* cursor at 1 and 2; the third call, which would move past the last child,
\* returns false and sets the cursor back to 0, and the calls after it
\* walk the folder again: after k calls the cursor is k mod 3, and a call
\* returns false exactly when it is the third, sixth, ... call.
C12_CursorWrapsAfterLastChild ==
    (ThreeSongs /\ OnlyAdvance) =>
        /\ db.queue.content.index = Len(hist) % 3
        /\ \A n \in 1..Len(hist) :
              /\ hist[n].ret = (n % 3 # 0)
              /\ hist[n].q.content.index = n % 3
              /\ hist[n].actions = <<>>

\* the third call on a folder of three songs has returned false
C12_Witness ==
    /\ ThreeSongs
    /\ OnlyAdvance
    /\ Len(hist) >= 3
    /\ ~hist[3].ret
    /\ hist[2].q.content.index = 2

\* scenario E3: Folder(0, [Song(0), Song(1), Song(2)]) and what insert(Song(9), 0)
\* is to make of it
E3Start == Into(QFolder(0, <<Into(QSong(0)), Into(QSong(1)), Into(QSong(2))>>, ""))

E3Inserted ==
    Into(QFolder(1, <<Into(QSong(9)), Into(QSong(0)), Into(QSong(1)), Into(QSong(2))>>, ""))

\* the calls so far are insert(Song(9), 0) on E3Start and advance_index calls
E3Calls ==
    /\ hist # <<>>
    /\ hist[1].op = "insert" /\ hist[1].arg = 0
    /\ hist[1].q.content.type = "Folder"
    /\ hist[1].q.content.contents = E3Inserted.content.contents

\* C13 as claimed: insert(Song(9), 0) on Folder(0, [Song(0), Song(1), Song(2)])
\* makes the cursor 1 and the children [Song(9), Song(0), Song(1), Song(2)];
\* four advance_index calls then return true, true, true, false and leave
\* the cursor at 0.
C13_FourAdvancesAfterInsert ==
    E3Calls =>
        /\ hist[1].ret /\ hist[1].q = E3Inserted
        /\ \A n \in 2..Len(hist) : hist[n].ret = (n <= 4)
        /\ Len(hist) = 5 => db.queue.content.index = 0

\* C13 amended: insert(Song(9), 0) on Folder(0, [Song(0), Song(1), Song(2)])
\* returns true and makes the cursor 1 and the children [Song(9), Song(0),
\* Song(1), Song(2)]; the next three advance_index calls return true, true,
\* false and leave the cursor at 2, 3 and 0; a fourth call returns true and
\* leaves the cursor at 1.
C13_ThreeAdvancesAfterInsert ==
    [][ /\ (hist = <<>> /\ db.queue = E3Start /\ hist'[1].op = "insert" /\ hist'[1].arg = 0)
            => (hist'[1].ret /\ db'.queue = E3Inserted)
        /\ E3Calls' =>
              /\ hist'[1].ret /\ hist'[1].q = E3Inserted
              /\ \A n \in 2..Len(hist') :
                    /\ hist'[n].ret = (n # 4)
                    /\ hist'[n].q.content.index = n % 4
                    /\ hist'[n].q.content.contents = E3Inserted.content.contents
              /\ db'.queue = hist'[Len(hist')].q ]_vars

\* all five calls of the scenario were made: the third advance_index
\* returned false with the cursor at 0
C13_Witness ==
    /\ E3Calls
    /\ Len(hist) = 5
    /\ ~hist[4].ret /\ hist[4].q.content.index = 0
    /\ hist[5].ret /\ db.queue.content.index = 1

\* the AddRandomSong actions for the root among the actions of a call
RootRequests(actions) ==
    SelectSeq(actions, LAMBDA a : a.type = "AddRandomSong" /\ a.path = <<>>)

\* the last call was init or advance_index, on a Random at the root
ReachedRandom ==
    /\ hist # <<>>
    /\ hist[Len(hist)].op \in {"init", "advance_index"}
    /\ db.queue.content.type = "Random"

\* C14 as claimed: after any init or advance_index step that reaches a Random
\* node, its buffer holds at least 2 items or the step's actions contain an
\* AddRandomSong for it; init on a Random with 0 or 1 buffered items
\* requests enough songs to top the buffer up to 2.
C14_RandomBufferToppedUp ==
    ReachedRandom =>
        LET last == hist[Len(hist)]
            buffered == Len(db.queue.content.q)
        IN  /\ buffered >= 2 \/ RootRequests(last.actions) # <<>>
            /\ last.op = "init" => buffered + Len(RootRequests(last.actions)) >= 2

\* init was called on a Random with one buffered item and pushed no action
C14_Witness ==
    /\ ReachedRandom
    /\ Len(hist) = 1 /\ hist[1].op = "init"
    /\ Len(db.queue.content.q) = 1
    /\ hist[1].actions = <<>>

\* the calls before the first advance_index that returned false
Traversal ==
    LET stops == {n \in 1..Len(hist) : ~hist[n].ret}
    IN  IF stops = {} THEN hist
        ELSE SubSeq(hist, 1, (CHOOSE n \in stops : \A m \in stops : n <= m) - 1)

\* the traversal has ended: an advance_index returned false
TraversalEnded == \E n \in 1..Len(hist) : ~hist[n].ret

\* the positions in elems of the elements that were current, in order: the
\* one the shuffle starts at, and the one after each call of the traversal
Visited ==
    <<At(db.queue.content.map, 0)>>
    \o [n \in 1..Len(Traversal) |->
            At(Traversal[n].q.content.map, Traversal[n].q.content.current)]

\* a Shuffle with elements was the root at the start, and every call was
\* advance_index
ShuffleWalk ==
    /\ db.queue.content.type = "Shuffle"
    /\ db.queue.content.elems # <<>>
    /\ OnlyAdvance

\* C15: starting a Shuffle at current = 0 with map a permutation of the
\* indices of elems, repeating advance_index until it returns false makes
\* every element of elems whose subtree contains at least one leaf the
\* current element (the one get_current finds) exactly once: no element is
\* current again after another one was, and when advance_index returns
\* false none was skipped.
C15_ShuffleVisitsEachOnce ==
    ShuffleWalk =>
        /\ \A n \in 1..Len(Traversal) :
              get_current(Traversal[n].q) = At(Traversal[n].q.content.elems, Visited[n + 1])
        /\ \A i, j \in 1..Len(Visited) :
              (i < j /\ Visited[i] = Visited[j]) =>
                  \A k \in i..j : Visited[k] = Visited[i]
        /\ TraversalEnded =>
              \A e \in 0..(Len(db.queue.content.elems) - 1) :
                  LeafPaths(At(db.queue.content.elems, e)) # {} =>
                      \E i \in 1..Len(Visited) : Visited[i] = e

\* a shuffle of three elements that does not start with its first one was
\* walked to its end, and one of the elements took two calls
C15_Witness ==
    /\ ShuffleWalk
    /\ TraversalEnded
    /\ Len(db.queue.content.elems) = 3
    /\ At(db.queue.content.map, 0) # 0
    /\ Len(Traversal) = 3
    /\ \E n \in 1..Len(Traversal) : Visited[n] = Visited[n + 1]

\* the first call was init, on a Shuffle at the root
InitOnShuffle ==
    /\ hist # <<>>
    /\ hist[1].op = "init"
    /\ db.queue.content.type = "Shuffle"

\* C16 as claimed: init on a Shuffle emits exactly one SetShuffle(path,
\* new_map, new_next); new_map is a permutation of 0..elems.len() whose
\* first entry is the Shuffle's previous next, and new_next lies in
\* [0, elems.len()), 0 when elems is empty - for every value of the stored
\* next and every size of elems.
C16_InitEmitsPermutationFromNext ==
    InitOnShuffle =>
        LET c == db.queue.content
            n == Len(c.elems)
            emitted == hist[1].actions
        IN  /\ Len(emitted) = 1
            /\ emitted[1].type = "SetShuffle"
            /\ emitted[1].path = <<>>
            /\ Len(emitted[1].new_map) = n
            /\ {emitted[1].new_map[k] : k \in 1..Len(emitted[1].new_map)} = 0..(n - 1)
            /\ n > 0 => emitted[1].new_map[1] = c.next
            /\ IF n = 0 THEN emitted[1].new_next = 0 ELSE emitted[1].new_next \in 0..(n - 1)

\* init on a Shuffle of one element whose next is 1 emitted a map of two
\* entries
C16_Witness ==
    /\ InitOnShuffle
    /\ Len(db.queue.content.elems) = 1
    /\ db.queue.content.next = 1
    /\ hist[1].actions[1].new_map = <<1, 0>>

\* ------------------------------------------------------------- cache calls
\* Threads that hold the song (it is Clone, and its cached_data an Arc) call
\* cache_data_start_thread, cached_data, cached_data_now and uncache_data on
\* it.  A call begins, waits for the lock on cached_data, and runs; a
\* load_data call, in a spawned thread or in cached_data_now, returns the
\* bytes or fails.

CacheOps == {"cache_data_start_thread", "cached_data", "cached_data_now", "uncache_data"}

\* the calls begun so far
Begun == Len(hist) + Cardinality({t \in CacheThreads : pc[t] # Idle})

\* the load_data calls that have not returned
InFlight == {h \in 1..Len(loads) : ~loads[h].done}

\* a call returns: what it returned, the load_data call it waited for (h),
\* the one that was in flight when it began (during) and what it found in
\* cached_data under the lock (saw)
Returned(t, ret, h) ==
    /\ hist' = Append(hist, [thread |-> t, op |-> pc[t].op, ret |-> ret, h |-> h,
                             during |-> pc[t].during, saw |-> cached_data.tag])
    /\ pc' = [pc EXCEPT ![t] = Idle]

\* a caller enters one of the functions; the callers are alike, so the
\* first one that is in no call makes the next call
CallCache(t) ==
    \E op \in CacheOps :
        /\ pc[t] = Idle
        /\ \A u \in 1..(t - 1) : pc[u] # Idle
        /\ Begun < MaxCacheCalls
        /\ pc' = [pc EXCEPT ![t] = [op |-> op, step |-> "lock", h |-> 0,
                                    during |-> IF InFlight = {} THEN 0
                                               ELSE CHOOSE h \in InFlight : TRUE]]
        /\ UNCHANGED <<db, hub_vars, hist, cached_data, cached_data_lock, loads>>

\* a start_thread that is also true while a thread is loading
start_thread_unless_cached(cd) == cd.tag # "Ok"

\* let start_thread = match cd.as_ref() { None => true, .. => false }
start_thread(cd) == cd.tag = "None"

CacheDataStartThread(t) ==
    /\ pc[t].op = "cache_data_start_thread"
    /\ cached_data_lock = 0
    /\ IF start_thread(cached_data)
       THEN /\ loads' = Append(loads, [spawned |-> TRUE, done |-> FALSE, data |-> None])
            /\ cached_data' = CErr(Len(loads) + 1)
       ELSE UNCHANGED <<loads, cached_data>>
    /\ Returned(t, start_thread(cached_data), 0)
    /\ UNCHANGED <<db, hub_vars, cached_data_lock>>

\* load_data returns, in the spawned thread or in cached_data_now: the
\* bytes, or None when the read or the download failed
LoadData(h) ==
    /\ h \in InFlight
    /\ \E data \in {h, None} :
          loads' = [loads EXCEPT ![h] = [@ EXCEPT !.done = TRUE, !.data = data]]
    /\ UNCHANGED <<db, hub_vars, hist, cached_data, cached_data_lock, pc>>

\* what cached_data() reads under the lock
cached(cd) == IF cd.tag = "Ok" THEN cd.data ELSE None

CachedData(t) ==
    /\ pc[t].op = "cached_data"
    /\ cached_data_lock = 0
    /\ Returned(t, cached(cached_data), 0)
    /\ UNCHANGED <<db, hub_vars, cached_data, cached_data_lock, loads>>

\* cached_data_now locks and takes the value: with None it calls load_data,
\* with a thread it joins it, holding the lock; with data it puts the data
\* back and drops the lock
CachedDataNowLock(t) ==
    /\ pc[t].op = "cached_data_now" /\ pc[t].step = "lock"
    /\ cached_data_lock = 0
    /\ CASE cached_data.tag = "None" ->
              /\ loads' = Append(loads, [spawned |-> FALSE, done |-> FALSE, data |-> None])
              /\ pc' = [pc EXCEPT ![t].step = "load", ![t].h = Len(loads) + 1]
              /\ cached_data_lock' = t
              /\ UNCHANGED cached_data
         [] cached_data.tag = "Err" ->
              /\ cached_data' = CNone
              /\ pc' = [pc EXCEPT ![t].step = "join", ![t].h = cached_data.thread]
              /\ cached_data_lock' = t
              /\ UNCHANGED loads
         [] cached_data.tag = "Ok" ->
              /\ pc' = [pc EXCEPT ![t].step = "read"]
              /\ UNCHANGED <<cached_data, cached_data_lock, loads>>
    /\ UNCHANGED <<db, hub_vars, hist>>

\* a match that keeps a failure as a state of its own
stored_with_failed(data) == IF data # None THEN COk(data) ELSE [tag |-> "Failed"]

\* what cached_data_now stores for the result of load_data or of t.join()
stored(data) == IF data # None THEN COk(data) ELSE CNone

\* load_data has returned or the thread is joined: the result is stored and
\* the lock dropped
CachedDataNowStore(t) ==
    /\ pc[t].op = "cached_data_now" /\ pc[t].step \in {"load", "join"}
    /\ loads[pc[t].h].done
    /\ cached_data' = stored(loads[pc[t].h].data)
    /\ cached_data_lock' = 0
    /\ pc' = [pc EXCEPT ![t].step = "read"]
    /\ UNCHANGED <<db, hub_vars, hist, loads>>

\* the closing self.cached_data(), which locks again
CachedDataNowRead(t) ==
    /\ pc[t].op = "cached_data_now" /\ pc[t].step = "read"
    /\ cached_data_lock = 0
    /\ Returned(t, cached(cached_data), pc[t].h)
    /\ UNCHANGED <<db, hub_vars, cached_data, cached_data_lock, loads>>

UncacheData(t) ==
    /\ pc[t].op = "uncache_data"
    /\ cached_data_lock = 0
    /\ cached_data' = IF cached_data.tag = "Ok" THEN CNone ELSE cached_data
    /\ Returned(t, cached_data.tag # "Err", 0)
    /\ UNCHANGED <<db, hub_vars, cached_data_lock, loads>>

InitCache ==
    /\ db = new_empty("dbfile", "lib")
    /\ HubInit
    /\ hist = <<>>
    /\ CacheInit

NextCache ==
    \/ \E t \in CacheThreads : CallCache(t)
    \/ \E t \in CacheThreads : CacheDataStartThread(t)
    \/ \E h \in 1..Len(loads) : LoadData(h)
    \/ \E t \in CacheThreads : CachedData(t)
    \/ \E t \in CacheThreads : CachedDataNowLock(t)
    \/ \E t \in CacheThreads : CachedDataNowStore(t)
    \/ \E t \in CacheThreads : CachedDataNowRead(t)
    \/ \E t \in CacheThreads : UncacheData(t)

SpecCache == InitCache /\ [][NextCache]_vars

\* ------------------------------------------------------------- cache claims

\* the step in which thread t runs cache_data_start_thread
StartThreadStep(t) ==
    /\ pc[t].op = "cache_data_start_thread"
    /\ pc'[t] = Idle

\* the spawned threads that have not been joined and have not returned
Spawning == {h \in InFlight : loads[h].spawned}

\* C17: concurrent cache_data_start_thread calls on one song spawn at most
\* one background load: a call returns true and spawns a load exactly when
\* the cache is Empty (None), after which the cache is Loading; while the
\* cache is Loading (a thread) or Ready (data) a call returns false and
\* spawns nothing; at no time are two loads of the song in flight.
C17_SingleLoadInFlight ==
    [][ /\ \A t \in CacheThreads :
              StartThreadStep(t) =>
                  LET ret == hist'[Len(hist')].ret
                  IN  /\ ret = (cached_data = CNone)
                      /\ ret => /\ Len(loads') = Len(loads) + 1
                                /\ cached_data' = CErr(Len(loads'))
                                /\ Spawning = {}
                      /\ ~ret => loads' = loads /\ cached_data' = cached_data
        /\ Cardinality(InFlight') <= 1 ]_vars

\* two callers were in cache_data_start_thread at once; one call returned
\* true and the other false, and the one load is still in flight
C17_Witness ==
    \E n, m \in 1..Len(hist) :
        /\ hist[n].op = "cache_data_start_thread" /\ hist[n].ret
        /\ hist[m].op = "cache_data_start_thread" /\ ~hist[m].ret
        /\ hist[n].thread # hist[m].thread
        /\ Len(hist) = 2
        /\ Cardinality(InFlight) = 1

\* C18 as claimed: after cache_data_start_thread has spawned the load, the
\* spawned task itself moves the cache to Ready when the read succeeds (or
\* to Failed when it does not), so that cached_data() comes to return the
\* bytes without any caller waiting on the task; cached_data() returns bytes
\* only in the Ready state and never blocks on a running load.
C18_TaskMakesCacheReady ==
    /\ \A h \in 1..Len(loads) :
          (loads[h].spawned /\ loads[h].done) => cached_data # CErr(h)
    /\ \A n \in 1..Len(hist) :
          hist[n].op = "cached_data" => (hist[n].ret # None <=> hist[n].saw = "Ok")
    /\ \A t \in CacheThreads :
          pc[t].op = "cached_data" =>
              ~(cached_data_lock # 0 /\ pc[cached_data_lock].h \in InFlight)

\* the spawned load has read the bytes, the cache still holds its thread,
\* and a cached_data() call found the thread and returned None
C18_Witness ==
    /\ \E h \in 1..Len(loads) :
          loads[h].spawned /\ loads[h].done /\ loads[h].data # None /\ cached_data = CErr(h)
    /\ hist[Len(hist)].op = "cached_data"
    /\ hist[Len(hist)].ret = None
    /\ hist[Len(hist)].saw = "Err"

\* C19 as claimed: cached_data_now waits for an in-flight load instead of
\* starting a second one and loads itself only when the cache is Empty; it
\* returns the bytes exactly when that load succeeded; two callers that call
\* it while one load is in flight both receive the bytes of that load.
C19_NowReturnsLoadedBytes ==
    /\ Cardinality(InFlight) <= 1
    /\ \A n \in 1..Len(hist) :
          (hist[n].op = "cached_data_now" /\ hist[n].h # 0) =>
              hist[n].ret = loads[hist[n].h].data
    /\ \A n \in 1..Len(hist) :
          (/\ hist[n].op = "cached_data_now"
           /\ hist[n].during # 0
           /\ loads[hist[n].during].done
           /\ loads[hist[n].during].data # None) =>
              hist[n].ret = loads[hist[n].during].data

\* cached_data_now loaded the bytes itself and returned None, because an
\* uncache_data call ran before its closing cached_data()
C19_Witness ==
    \E n, m \in 1..Len(hist) :
        /\ m < n
        /\ hist[n].op = "cached_data_now"
        /\ hist[n].h # 0
        /\ ~loads[hist[n].h].spawned
        /\ loads[hist[n].h].data # None
        /\ hist[n].ret = None
        /\ hist[m].op = "uncache_data" /\ hist[m].saw = "Ok"

\* the step in which cached_data_now stores the result of its load or join
StoreStep(t) == pc[t].step \in {"load", "join"} /\ pc'[t].step = "read"

\* the load_data calls that have failed
Failed == {h \in 1..Len(loads) : loads[h].done /\ loads[h].data = None}

\* C20 as claimed: when a load of the song's bytes fails the cache ends in a
\* Failed state that is distinct from Empty; callers see no data, and a
\* later cache_data_start_thread on the failed song does not spawn a new
\* load.
C20_FailedStateBlocksReload ==
    \A h \in Failed :
        /\ \A k \in (h + 1)..Len(loads) : ~loads[k].spawned
        /\ (cached_data_lock = 0 /\ cached_data # CErr(h)) => cached_data # CNone

\* C20 amended: the cache has three states and none for a failure.  A load
\* that failed stores nothing: a failed background load leaves the cache
\* Loading (its thread) until cached_data_now joins it, and cached_data_now
\* leaves the cache Empty after a failed join or a failed load of its own.
\* Callers never see data of a failed load, and a cache_data_start_thread
\* call that finds the cache Empty after a failure returns true and spawns
\* a new load.
C20_FailedLoadLeavesEmpty ==
    [][ /\ cached_data'.tag \in {"None", "Ok", "Err"}
        /\ \A h \in Failed' \ Failed : cached_data' = cached_data
        /\ \A t \in CacheThreads :
              (StoreStep(t) /\ pc[t].h \in Failed) => cached_data' = CNone
        /\ \A t \in CacheThreads :
              (StartThreadStep(t) /\ Failed # {} /\ cached_data = CNone) =>
                  /\ hist'[Len(hist')].ret
                  /\ Len(loads') = Len(loads) + 1
                  /\ loads'[Len(loads')].spawned
        /\ \A n \in 1..Len(hist') :
              (hist'[n].op \in {"cached_data", "cached_data_now"} /\ hist'[n].ret # None) =>
                  hist'[n].ret \notin Failed' ]_vars

\* a background load failed and was joined by cached_data_now, which
\* returned None; the next cache_data_start_thread returned true and
\* spawned a second load
C20_Witness ==
    /\ Len(hist) = 3
    /\ hist[1].op = "cache_data_start_thread" /\ hist[1].ret
    /\ hist[2].op = "cached_data_now" /\ hist[2].h = 1 /\ hist[2].ret = None
    /\ 1 \in Failed
    /\ hist[3].op = "cache_data_start_thread" /\ hist[3].ret
    /\ Len(loads) = 2 /\ loads[2].spawned

\* ---------------------------------------------------------------- queue codec
\* SpecCodec: the byte form of a Queue.  A byte is a number in 0..255 and a
\* stream is a sequence of bytes; a decoder returns Ok(value, the bytes left)
\* or IoError.  The primitives (usize, String, Vec, VecDeque) are those of
\* load/mod.rs, which is not part of src/: they follow the protocol
\* description (little-endian u64, u64 length prefix).

Byte == 0..255

\* u8::count_ones
RECURSIVE count_ones(_)
count_ones(b) == IF b = 0 THEN 0 ELSE (b % 2) + count_ones(b \div 2)

IoError == [ok |-> FALSE]

Ok(val, rest) == [ok |-> TRUE, val |-> val, rest |-> rest]

\* the bytes of s behind the first n
Skip(s, n) == SubSeq(s, n + 1, Len(s))

\* the ? of a read: the error of r if it failed, otherwise what follows, F,
\* applied to what was read
Try(r, F(_)) == CHOOSE out \in {IF x.ok THEN F(x) ELSE IoError : x \in {r}} : TRUE

\* usize as u64, little-endian.  Numbers stay below 2^31 here: the upper four
\* bytes are written as 0, and a number read with more than 31 bits, which
\* no stream below holds, reads as 2^31 - 1

usize_to_bytes(n) ==
    <<n % 256, (n \div 256) % 256, (n \div 65536) % 256, (n \div 16777216) % 256,
      0, 0, 0, 0>>

usize_from_bytes(s) ==
    IF Len(s) < 8 THEN IoError
    ELSE IF s[4] >= 128 \/ \E i \in 5..8 : s[i] # 0 THEN Ok(2147483647, Skip(s, 8))
    ELSE Ok(s[1] + 256 * s[2] + 65536 * s[3] + 16777216 * s[4], Skip(s, 8))

\* the names that occur, and their UTF-8 bytes
Names == {"", "a", "lib", "<invalid byte received>"}

utf8(name) ==
    CASE name = "" -> <<>>
      [] name = "a" -> <<97>>
      [] name = "lib" -> <<108, 105, 98>>
      [] name = "<invalid byte received>" ->
            <<60, 105, 110, 118, 97, 108, 105, 100, 32, 98, 121, 116, 101, 32,
              114, 101, 99, 101, 105, 118, 101, 100, 62>>

String_to_bytes(name) == usize_to_bytes(Len(utf8(name))) \o utf8(name)

\* a text outside Names is not drawn by any stream below: it reads as "?"
String_from_bytes(s) ==
    LET n == usize_from_bytes(s)
    IN  IF ~n.ok THEN IoError
        ELSE IF Len(n.rest) < n.val THEN IoError
        ELSE LET bytes == SubSeq(n.rest, 1, n.val)
                 known == {name \in Names : utf8(name) = bytes}
             IN  Ok(IF known = {} THEN "?" ELSE CHOOSE name \in known : TRUE,
                    Skip(n.rest, n.val))

\* Vec<usize>
RECURSIVE concat_usize(_)
concat_usize(v) ==
    IF v = <<>> THEN <<>> ELSE usize_to_bytes(Head(v)) \o concat_usize(Tail(v))

VecUsize_to_bytes(v) == usize_to_bytes(Len(v)) \o concat_usize(v)

RECURSIVE read_usize(_, _, _)
read_usize(s, n, acc) ==
    IF n = 0 THEN Ok(acc, s)
    ELSE Try(usize_from_bytes(s), LAMBDA e :
             read_usize(e.rest, n - 1, Append(acc, e.val)))

VecUsize_from_bytes(s) ==
    Try(usize_from_bytes(s), LAMBDA n : read_usize(n.rest, n.val, <<>>))

\* the tag bytes of QueueContent: Song 0b11111111, Folder 0b00000000,
\* Loop 0b11000000, Random 0b00110000, Shuffle 0b00001100
KnownTags == {255, 0, 192, 48, 12}

\* the enabled byte to_bytes writes; the variant writes 0b00001111 for enabled,
\* which from_bytes also reads as enabled
enabled_byte(enabled) == IF enabled THEN 255 ELSE 0

\* from_bytes: enabled[0].count_ones() >= 4; the variant reads any set bit
\* as enabled
enabled_from_any_bit(b) == count_ones(b) >= 1

enabled_from(b) == count_ones(b) >= 4

RECURSIVE Queue_to_bytes(_), QueueContent_to_bytes(_), VecQueue_to_bytes(_), concat_queue(_)

\* impl ToFromBytes for Queue: to_bytes
Queue_to_bytes(self) ==
    <<enabled_byte(self.enabled)>> \o QueueContent_to_bytes(self.content)

concat_queue(v) ==
    IF v = <<>> THEN <<>> ELSE Queue_to_bytes(Head(v)) \o concat_queue(Tail(v))

\* Vec<Queue> and VecDeque<Queue>
VecQueue_to_bytes(v) == usize_to_bytes(Len(v)) \o concat_queue(v)

\* impl ToFromBytes for QueueContent: to_bytes
QueueContent_to_bytes(self) ==
    CASE self.type = "Song" -> <<255>> \o usize_to_bytes(self.id)
      [] self.type = "Folder" ->
            <<0>> \o usize_to_bytes(self.index)
                \o VecQueue_to_bytes(self.contents) \o String_to_bytes(self.name)
      [] self.type = "Loop" ->
            <<192>> \o usize_to_bytes(self.total) \o usize_to_bytes(self.current)
                \o Queue_to_bytes(self.inner)
      [] self.type = "Random" -> <<48>> \o VecQueue_to_bytes(self.q)
      [] self.type = "Shuffle" ->
            <<12>> \o usize_to_bytes(self.current) \o VecUsize_to_bytes(self.map)
                \o VecQueue_to_bytes(self.elems) \o usize_to_bytes(self.next)

RECURSIVE Queue_from_bytes(_), QueueContent_from_bytes(_), VecQueue_from_bytes(_), read_queue(_, _, _)

\* impl ToFromBytes for Queue: from_bytes
Queue_from_bytes(s) ==
    IF Len(s) < 1 THEN IoError
    ELSE LET content == QueueContent_from_bytes(Tail(s))
         IN  IF content.ok
             THEN Ok([enabled |-> enabled_from(s[1]), content |-> content.val],
                     content.rest)
             ELSE IoError

read_queue(s, n, acc) ==
    IF n = 0 THEN Ok(acc, s)
    ELSE LET e == Queue_from_bytes(s)
         IN  IF e.ok THEN read_queue(e.rest, n - 1, Append(acc, e.val)) ELSE IoError

VecQueue_from_bytes(s) ==
    LET n == usize_from_bytes(s)
    IN  IF n.ok THEN read_queue(n.rest, n.val, <<>>) ELSE IoError

\* impl ToFromBytes for QueueContent: from_bytes.  The last arm answers any
\* other tag byte and reads nothing behind it
QueueContent_from_bytes(s) ==
    IF Len(s) < 1 THEN IoError
    ELSE LET tag == s[1]
             r == Tail(s)
         IN  CASE tag = 255 ->
                    LET id == usize_from_bytes(r)
                    IN  IF id.ok THEN Ok(QSong(id.val), id.rest) ELSE IoError
               [] tag = 0 ->
                    LET index == usize_from_bytes(r)
                        contents == IF index.ok THEN VecQueue_from_bytes(index.rest)
                                    ELSE IoError
                        name == IF contents.ok THEN String_from_bytes(contents.rest)
                                ELSE IoError
                    IN  IF name.ok
                        THEN Ok(QFolder(index.val, contents.val, name.val), name.rest)
                        ELSE IoError
               [] tag = 192 ->
                    LET total == usize_from_bytes(r)
                        current == IF total.ok THEN usize_from_bytes(total.rest)
                                   ELSE IoError
                        inner == IF current.ok THEN Queue_from_bytes(current.rest)
                                 ELSE IoError
                    IN  IF inner.ok
                        THEN Ok(QLoop(total.val, current.val, inner.val), inner.rest)
                        ELSE IoError
               [] tag = 48 ->
                    LET q == VecQueue_from_bytes(r)
                    IN  IF q.ok THEN Ok(QRandom(q.val), q.rest) ELSE IoError
               [] tag = 12 ->
                    LET current == usize_from_bytes(r)
                        map == IF current.ok THEN VecUsize_from_bytes(current.rest)
                               ELSE IoError
                        elems == IF map.ok THEN VecQueue_from_bytes(map.rest)
                                 ELSE IoError
                        next == IF elems.ok THEN usize_from_bytes(elems.rest)
                                ELSE IoError
                    IN  IF next.ok
                        THEN Ok(QShuffle(current.val, map.val, elems.val, next.val),
                                next.rest)
                        ELSE IoError
               [] OTHER -> Ok(QFolder(0, <<>>, "<invalid byte received>"), r)

\* ---------------------------------------------------------------- codec calls
\* how deep the encoded trees nest
MaxDepth == 2

\* the trees that are written: songs (one id of two bytes, one disabled) and
\* an empty folder, and around each tree of the level below a folder with a
\* name and a second child, a disabled loop, a random and a shuffle
RECURSIVE CodecLevel(_)
CodecLevel(d) ==
    LET S0 == Into(QSong(0))
        S1 == Disabled(Into(QSong(MaxId)))
        S258 == Into(QSong(258))
    IN  IF d = 0 THEN {S0, S1, S258, EmptyQueue}
        ELSE LET below == CodecLevel(d - 1)
             IN  below
                 \cup {Into(QFolder(1, <<x, S1>>, "a")) : x \in below}
                 \cup {Disabled(Into(QLoop(2, 1, x))) : x \in below}
                 \cup {Into(QRandom(<<x>>)) : x \in below}
                 \cup {Into(QShuffle(1, <<1, 0>>, <<S258, x>>, 1)) : x \in below}

CodecTrees == CodecLevel(MaxDepth)

\* bytes that follow a queue in the stream
Trails == {<<>>, <<7>>}

\* a node written by a later version: an enabled byte, a tag byte this
\* version does not know, and what that version wrote behind it
ForeignPayloads == {<<>>, <<5>>}

Foreign(tag, payload) == <<255, tag>> \o payload

\* the stream of a container of one child, with the bytes `child` in place of
\* that child's; "None" is the child on its own
Hole == Into(QSong(0))

Around ==
    [Folder |-> [q |-> Into(QFolder(0, <<Hole>>, "")), at |-> 18],
     Loop |-> [q |-> Into(QLoop(0, 0, Hole)), at |-> 18],
     Random |-> [q |-> Into(QRandom(<<Hole>>)), at |-> 10],
     Shuffle |-> [q |-> Into(QShuffle(0, <<0>>, <<Hole>>, 0)), at |-> 34]]

Enclose(kind, child) ==
    IF kind = "None" THEN child
    ELSE LET whole == Queue_to_bytes(Around[kind].q)
             at == Around[kind].at
         IN  SubSeq(whole, 1, at) \o child
                 \o Skip(whole, at + Len(Queue_to_bytes(Hole)))

\* the only child of a decoded container
OnlyChild(kind, q) ==
    CASE kind = "None" -> q
      [] kind = "Folder" -> At(q.content.contents, 0)
      [] kind = "Loop" -> q.content.inner
      [] kind = "Random" -> At(q.content.q, 0)
      [] kind = "Shuffle" -> At(q.content.elems, 0)

\* to_bytes of the queue
CallToBytes ==
    /\ hist = <<>>
    /\ hist' = <<[op |-> "to_bytes", arg |-> db.queue, ret |-> Queue_to_bytes(db.queue)]>>
    /\ UNCHANGED <<db, hub_vars, cache_vars>>

\* from_bytes of what was written, behind any enabled byte and with any trail
CallFromBytes ==
    /\ Len(hist) = 1 /\ hist[1].op = "to_bytes"
    /\ \E b \in Byte, trail \in Trails :
          LET s == <<b>> \o Tail(hist[1].ret) \o trail
          IN  hist' = Append(hist, [op |-> "from_bytes", arg |-> s, trail |-> trail,
                                    ret |-> Queue_from_bytes(s)])
    /\ UNCHANGED <<db, hub_vars, cache_vars>>

\* from_bytes of a stream that holds a node of a later version, on its own or
\* as the only child of a container; the stream does not depend on the queue
\* at hand, which is the empty one
CallFromBytesForeign ==
    /\ hist = <<>>
    /\ db.queue = EmptyQueue
    /\ \E tag \in Byte \ KnownTags, payload \in ForeignPayloads,
          kind \in {"None", "Folder", "Loop", "Random", "Shuffle"} :
          LET s == Enclose(kind, Foreign(tag, payload))
          IN  hist' = <<[op |-> "from_bytes_foreign", arg |-> s, kind |-> kind,
                         tag |-> tag, payload |-> payload,
                         ret |-> Queue_from_bytes(s)]>>
    /\ UNCHANGED <<db, hub_vars, cache_vars>>

InitCodec ==
    /\ db \in {[new_empty("dbfile", "lib") EXCEPT !.queue = q] : q \in CodecTrees}
    /\ HubInit
    /\ hist = <<>>
    /\ CacheInit

NextCodec == CallToBytes \/ CallFromBytes \/ CallFromBytesForeign

SpecCodec == InitCodec /\ [][NextCodec]_vars

\* --------------------------------------------------------------- codec claims

\* the tag byte the format gives a content
TagOf(content) ==
    CASE content.type = "Song" -> 255
      [] content.type = "Folder" -> 0
      [] content.type = "Loop" -> 192
      [] content.type = "Random" -> 48
      [] content.type = "Shuffle" -> 12

\* at least four of the eight bits of b are set
FourBitsSet(b) ==
    \E bits \in SUBSET (0..7) :
        /\ Cardinality(bits) >= 4
        /\ \A i \in bits : (b \div (2 ^ i)) % 2 = 1

\* C21: whatever Queue is written, its second byte is the tag of its content
\* (Song 0xFF, Folder 0x00, Loop 0xC0, Random 0x30, Shuffle 0x0C); reading the
\* bytes back gives the content that was written and leaves exactly the bytes
\* that followed; the queue read is enabled if and only if at least four bits
\* of the enabled byte are set, so the bytes as written give back the queue
C21_QueueRoundTrip ==
    /\ Len(hist) >= 1 /\ hist[1].op = "to_bytes" =>
          hist[1].ret[2] = TagOf(hist[1].arg.content)
    /\ Len(hist) = 2 =>
          /\ hist[2].ret.ok
          /\ hist[2].ret.val.content = hist[1].arg.content
          /\ hist[2].ret.rest = hist[2].trail
          /\ hist[2].ret.val.enabled <=> FourBitsSet(hist[2].arg[1])
          /\ hist[2].arg[1] = hist[1].ret[1] => hist[2].ret.val = hist[1].arg

\* a disabled loop around a shuffle around a folder is read back from the
\* bytes written, with a trail behind them
C21_Witness ==
    /\ Len(hist) = 2
    /\ hist[1].arg.content.type = "Loop" /\ ~hist[1].arg.enabled
    /\ hist[1].arg.content.inner.content.type = "Shuffle"
    /\ At(hist[1].arg.content.inner.content.elems, 1).content.type = "Folder"
    /\ hist[2].arg[1] = 0 /\ hist[2].trail = <<7>>
    /\ hist[2].ret.ok /\ hist[2].ret.val = hist[1].arg

Placeholder == Into(QFolder(0, <<>>, "<invalid byte received>"))

\* C22: a node with a tag byte that is none of the five known ones is read
\* as Folder(0, [], "<invalid byte received>"), on its own and as the child of
\* a Folder, Loop, Random or Shuffle, whose decode then ends without an error
C22_ForeignTagNeverFails ==
    \A n \in 1..Len(hist) :
        hist[n].op = "from_bytes_foreign" =>
            /\ hist[n].ret.ok
            /\ OnlyChild(hist[n].kind, hist[n].ret.val) = Placeholder

\* a foreign node without payload inside a folder is read as the placeholder
C22_Witness ==
    /\ Len(hist) = 1 /\ hist[1].op = "from_bytes_foreign"
    /\ hist[1].kind = "Folder" /\ hist[1].payload = <<>>
    /\ hist[1].ret.ok /\ hist[1].ret.rest = <<>>
    /\ hist[1].ret.val = Into(QFolder(0, <<Placeholder>>, ""))

\* --------------------------------------------------------------- database file
\* SpecSnapshot: save_database writes the library directory and the four
\* mappings to the database file, load_database reads them back.  The codec
\* of the mappings and of their entries is that of load/mod.rs and of the
\* entity files, which are not part of src/: u64 count, then key and entry;
\* an entry is its modelled fields in the order of the struct; Option is one
\* byte, 0 for None, then the value.

Opt_to_bytes(x) == IF x = None THEN <<0>> ELSE <<1>> \o usize_to_bytes(x)

Opt_from_bytes(s) ==
    IF Len(s) < 1 THEN IoError
    ELSE IF s[1] = 0 THEN Ok(None, Tail(s))
    ELSE usize_from_bytes(Tail(s))

Entity_to_bytes(kind, v) ==
    CASE kind = "Artist" ->
            usize_to_bytes(v.id) \o VecUsize_to_bytes(v.albums)
                \o VecUsize_to_bytes(v.singles)
      [] kind = "Album" ->
            usize_to_bytes(v.id) \o Opt_to_bytes(v.artist) \o VecUsize_to_bytes(v.songs)
      [] kind = "Song" ->
            usize_to_bytes(v.id) \o Opt_to_bytes(v.album) \o Opt_to_bytes(v.artist)
      [] kind = "Cover" -> String_to_bytes(v.location)

Entity_from_bytes(kind, s) ==
    CASE kind = "Artist" ->
            Try(usize_from_bytes(s), LAMBDA id :
            Try(VecUsize_from_bytes(id.rest), LAMBDA albums :
            Try(VecUsize_from_bytes(albums.rest), LAMBDA singles :
                Ok([id |-> id.val, albums |-> albums.val, singles |-> singles.val],
                   singles.rest))))
      [] kind = "Album" ->
            Try(usize_from_bytes(s), LAMBDA id :
            Try(Opt_from_bytes(id.rest), LAMBDA artist :
            Try(VecUsize_from_bytes(artist.rest), LAMBDA songs :
                Ok([id |-> id.val, artist |-> artist.val, songs |-> songs.val],
                   songs.rest))))
      [] kind = "Song" ->
            Try(usize_from_bytes(s), LAMBDA id :
            Try(Opt_from_bytes(id.rest), LAMBDA album :
            Try(Opt_from_bytes(album.rest), LAMBDA artist :
                Ok([id |-> id.val, album |-> album.val, artist |-> artist.val],
                   artist.rest))))
      [] kind = "Cover" ->
            Try(String_from_bytes(s), LAMBDA location :
                Ok([location |-> location.val], location.rest))

\* HashMap<Id, Entity>
RECURSIVE concat_map(_, _)
concat_map(kind, map) ==
    IF DOMAIN map = {} THEN <<>>
    ELSE LET k == CHOOSE x \in DOMAIN map : \A y \in DOMAIN map : x <= y
         IN  usize_to_bytes(k) \o Entity_to_bytes(kind, map[k])
                 \o concat_map(kind, Del(map, k))

Map_to_bytes(kind, map) ==
    usize_to_bytes(Cardinality(DOMAIN map)) \o concat_map(kind, map)

RECURSIVE read_map(_, _, _, _)
read_map(kind, s, n, acc) ==
    IF n = 0 THEN Ok(acc, s)
    ELSE Try(usize_from_bytes(s), LAMBDA k :
         Try(Entity_from_bytes(kind, k.rest), LAMBDA v :
             read_map(kind, v.rest, n - 1, Put(acc, k.val, v.val))))

Map_from_bytes(kind, s) ==
    Try(usize_from_bytes(s), LAMBDA n : read_map(kind, n.rest, n.val, EmptyMap))

\* Option::<PathBuf>::None
NoPath == "<none>"

\* a save that writes the albums in front of the artists
save_database_albums_first(d, path) ==
    LET p == IF path # NoPath THEN path ELSE d.db_file
    IN  IF p = "" THEN [ret |-> p, wrote |-> FALSE, file |-> <<>>]
        ELSE [ret |-> p, wrote |-> TRUE,
              file |-> String_to_bytes(d.lib_directory)
                        \o Map_to_bytes("Album", d.albums)
                        \o Map_to_bytes("Artist", d.artists)
                        \o Map_to_bytes("Song", d.songs)
                        \o Map_to_bytes("Cover", d.covers)]

\* save_database: [ret: the path returned, wrote: the file was rewritten,
\* file: its bytes]
save_database(d, path) ==
    LET p == IF path # NoPath THEN path ELSE d.db_file
    IN  IF p = "" THEN [ret |-> p, wrote |-> FALSE, file |-> <<>>]
        ELSE [ret |-> p, wrote |-> TRUE,
              file |-> String_to_bytes(d.lib_directory)
                        \o Map_to_bytes("Artist", d.artists)
                        \o Map_to_bytes("Album", d.albums)
                        \o Map_to_bytes("Song", d.songs)
                        \o Map_to_bytes("Cover", d.covers)]

\* load_database of a file with the given bytes: Ok(the database) or the
\* error of the first read that fails
load_database_file(path, file) ==
    Try(String_from_bytes(file), LAMBDA lib_directory :
    Try(Map_from_bytes("Artist", lib_directory.rest), LAMBDA artists :
    Try(Map_from_bytes("Album", artists.rest), LAMBDA albums :
    Try(Map_from_bytes("Song", albums.rest), LAMBDA songs :
    Try(Map_from_bytes("Cover", songs.rest), LAMBDA covers :
        Ok([load_database(path, lib_directory.val, artists.val, albums.val,
                          songs.val) EXCEPT !.covers = covers.val],
           covers.rest))))))

\* the catalogs that are saved: none, that of scenario E1 with a cover, and
\* one with a second song that has neither album nor artist
SnapshotCatalogs ==
    LET cover == [location |-> "a"]
        single == [id |-> MaxId, album |-> None, artist |-> None]
    IN  {[artists |-> EmptyMap, albums |-> EmptyMap, songs |-> EmptyMap,
          covers |-> EmptyMap],
         [artists |-> E1Artists, albums |-> E1Albums, songs |-> E1Songs,
          covers |-> Put(EmptyMap, 0, cover)],
         [artists |-> E1Artists, albums |-> E1Albums,
          songs |-> Put(E1Songs, MaxId, single),
          covers |-> Put(Put(EmptyMap, 0, cover), MaxId + 4, [location |-> ""])]}

\* save_database(path) by a server (db_file set) or a client (no path set)
CallSave ==
    \E path \in {NoPath, "dbfile2"} :
        LET r == save_database(db, path)
        IN  /\ hist = <<>>
            /\ hist' = <<[op |-> "save_database", arg |-> path, ret |-> r.ret,
                          wrote |-> r.wrote, file |-> r.file, saved |-> db,
                          endpoints |-> update_endpoints]>>
            /\ UNCHANGED <<db, hub_vars, cache_vars>>

\* a new process loads the file that was written
CallLoad ==
    /\ Len(hist) = 1 /\ hist[1].wrote
    /\ LET r == load_database_file(hist[1].ret, hist[1].file)
       IN  /\ hist' = Append(hist, [op |-> "load_database", arg |-> hist[1].ret,
                                    ok |-> r.ok])
           /\ db' = IF r.ok THEN r.val ELSE db
           /\ update_endpoints' = IF r.ok THEN <<>> ELSE update_endpoints
    /\ UNCHANGED <<mutex, stack, con, entered, applied, issued, cache_vars, connection>>

InitSnapshot ==
    /\ connection = NoConnection
    /\ db \in {[new_empty(path, lib) EXCEPT !.artists = c.artists, !.albums = c.albums,
                    !.songs = c.songs, !.covers = c.covers, !.queue = q,
                    !.playing = playing] :
                  path \in {"", "dbfile"}, lib \in {"lib", ""}, c \in SnapshotCatalogs,
                  q \in {EmptyQueue, Into(QFolder(1, <<Into(QSong(0)), Into(QSong(1))>>, "a"))},
                  playing \in BOOLEAN}
    /\ update_endpoints \in {<<>>, <<MaxCons + 1>>}
    /\ mutex = 0
    /\ stack = [t \in Threads |-> <<>>]
    /\ con = [s \in Subs |-> NewCon]
    /\ entered = 0
    /\ applied = <<>>
    /\ issued = 0
    /\ hist = <<>>
    /\ CacheInit

NextSnapshot == CallSave \/ CallLoad

SpecSnapshot == InitSnapshot /\ [][NextSnapshot]_vars

BS == "\\"
LF == "\n"
CR == "\r"

\* an encoding that leaves the backslash as it is
con_get_encode_string_bare_backslash(line) ==
    IF line = <<>> THEN <<>>
    ELSE LET enc(ch) == CASE ch = LF -> <<BS, "n">>
                          [] ch = CR -> <<BS, "r">>
                          [] OTHER -> <<ch>>
             all[k \in 0..Len(line)] ==
                 IF k = 0 THEN <<>> ELSE all[k - 1] \o enc(line[k])
         IN  all[Len(line)]

RECURSIVE con_get_encode_string(_)
con_get_encode_string(line) ==
    IF line = <<>> THEN <<>>
    ELSE LET ch == Head(line)
         IN  (CASE ch = BS -> <<BS, BS>>
                [] ch = LF -> <<BS, "n">>
                [] ch = CR -> <<BS, "r">>
                [] OTHER -> <<ch>>) \o con_get_encode_string(Tail(line))

RECURSIVE con_get_decode_line(_)
con_get_decode_line(line) ==
    IF line = <<>> THEN <<>>
    ELSE IF Head(line) = BS
         THEN IF Len(line) = 1 THEN <<>>
              ELSE LET ch == line[2]
                   IN  <<CASE ch = "n" -> LF
                           [] ch = "r" -> CR
                           [] OTHER -> ch>> \o con_get_decode_line(Skip(line, 2))
         ELSE <<Head(line)>> \o con_get_decode_line(Tail(line))

\* the position of the first line feed of s, or 0
first_lf(s) ==
    IF \E k \in 1..Len(s) : s[k] = LF
    THEN CHOOSE k \in 1..Len(s) : s[k] = LF /\ \A j \in 1..(k - 1) : s[j] # LF
    ELSE 0

\* str::lines: the text between line feeds, without them and without a
\* carriage return in front of them
RECURSIVE lines(_)
lines(s) ==
    IF s = <<>> THEN <<>>
    ELSE LET k == first_lf(s)
             line == IF k = 0 THEN s ELSE SubSeq(s, 1, k - 1)
             rest == IF k = 0 THEN <<>> ELSE Skip(s, k)
         IN  <<IF k # 0 /\ line # <<>> /\ line[Len(line)] = CR
               THEN SubSeq(line, 1, Len(line) - 1) ELSE line>> \o lines(rest)

Digits == <<"0", "1", "2", "3", "4", "5", "6", "7", "8", "9">>

IsDigit(ch) == \E d \in 1..10 : Digits[d] = ch

\* str::parse::<usize>: the number, or None
RECURSIVE parse(_)
parse(s) ==
    IF s = <<>> \/ \E k \in 1..Len(s) : ~IsDigit(s[k]) THEN None
    ELSE LET d == CHOOSE x \in 1..10 : Digits[x] = s[Len(s)]
         IN  IF Len(s) = 1 THEN d - 1
             ELSE 10 * parse(SubSeq(s, 1, Len(s) - 1)) + d - 1

\* format!("{n}")
RECURSIVE to_string(_)
to_string(n) ==
    IF n < 10 THEN <<Digits[n + 1]>>
    ELSE to_string(n \div 10) \o <<Digits[(n % 10) + 1]>>

\* str::trim
RECURSIVE trim(_)
trim(s) ==
    LET white(ch) == ch \in {" ", LF, CR}
    IN  IF s = <<>> THEN s
        ELSE IF white(Head(s)) THEN trim(Tail(s))
        ELSE IF white(s[Len(s)]) THEN trim(SubSeq(s, 1, Len(s) - 1))
        ELSE s

\* BufRead::read_line on what has arrived: [line: up to and with the first
\* line feed, or all of it at the end of the stream; rest]; a line is there
\* once its line feed is, or the far end has closed
has_line(buf, closed) == first_lf(buf) # 0 \/ closed

read_line(buf) ==
    LET k == first_lf(buf)
    IN  IF k = 0 THEN [line |-> buf, rest |-> <<>>]
        ELSE [line |-> SubSeq(buf, 1, k), rest |-> Skip(buf, k)]

\* a writeln that ends the line with carriage return and line feed
writeln_crlf(text) == text \o <<CR, LF>>

\* writeln!(.., "{text}")
writeln(text) == text \o <<LF>>

\* the bytes of a file that cannot be read
NoData == <<"<unavailable>">>

\* one round of the loop of handle_one_connection_as_get for the line read,
\* with the covers of the database and the files on disk: what it writes
handle_line(covers, disk, line) ==
    LET request == lines(con_get_decode_line(line))
    IN  IF request = <<>> THEN <<>>
        ELSE IF request[1] = <<"cover-bytes">>
        THEN LET id == IF Len(request) >= 2 THEN parse(request[2]) ELSE None
             IN  IF id # None /\ id \in DOMAIN covers
                 THEN IF disk[covers[id].location] # NoData
                      THEN writeln(<<"len:", " ">>
                                     \o to_string(Len(disk[covers[id].location])))
                               \o disk[covers[id].location]
                      ELSE writeln(<<"n", "o data">>)
                 ELSE writeln(<<"n", "o cover">>)
        ELSE <<>>

\* the line Client::cover_bytes writes for a text in place of the id
cover_bytes_request(id) == writeln(con_get_encode_string(<<"cover-bytes", LF>> \o id))

\* Client::cover_bytes once the response line is read: [ok: the len branch,
\* need: bytes to read_exact, err: the error string]
cover_bytes_response(line) ==
    LET response == con_get_decode_line(line)
    IN  IF Len(response) >= 2 /\ SubSeq(response, 1, 2) = <<"len:", " ">>
        THEN LET n == parse(trim(Skip(response, 1)))
             IN  IF n # None THEN [ok |-> TRUE, need |-> n, err |-> <<>>]
                 ELSE [ok |-> FALSE, need |-> 0, err |-> response]
        ELSE [ok |-> FALSE, need |-> 0, err |-> response]

\* the longest text sent, and the requests of one Client
MaxStr == 3
MaxRequests == 2

\* the texts a program may send as a request
Texts == SeqsUpTo({"cover-bytes", LF, "0", "1", "x", BS, CR, "n", "r"}, MaxStr)

\* lines that no encoding gives: a backslash in front of the line feed
Malformed == {<<BS, LF>>, <<"cover-bytes", BS, LF>>, <<"x", BS, LF>>}

Requests == Len(SelectSeq(hist, LAMBDA e : e.op \in {"cover_bytes", "send"}))

\* Client::cover_bytes(id), up to the request written
CoverBytes ==
    \E id \in {0, 1, 5} :
        /\ connection.client = "idle"
        /\ Requests < MaxRequests
        /\ \A n \in 1..Len(hist) : hist[n].op # "send"
        /\ connection' = [connection EXCEPT !.up = @ \o cover_bytes_request(to_string(id)),
                                            !.client = "cover_bytes"]
        /\ hist' = Append(hist, [op |-> "cover_bytes", id |-> id])
        /\ UNCHANGED <<db, update_endpoints, mutex, stack, con, entered, applied, issued,
                       cache_vars>>

\* another program writes a text as one request and waits for a response line
SendText ==
    \E text \in Texts :
        /\ hist = <<>>
        /\ connection' = [connection EXCEPT !.up = writeln(con_get_encode_string(text)),
                                            !.client = "read_line"]
        /\ hist' = <<[op |-> "send", text |-> text,
                      line |-> con_get_encode_string(text),
                      back |-> con_get_decode_line(con_get_encode_string(text))]>>
        /\ UNCHANGED <<db, update_endpoints, mutex, stack, con, entered, applied, issued,
                       cache_vars>>

\* another program writes a line that is no encoding of a text
SendMalformed ==
    \E line \in Malformed :
        /\ hist = <<>>
        /\ connection' = [connection EXCEPT !.up = line, !.client = "read_line"]
        /\ hist' = <<[op |-> "send", text |-> con_get_decode_line(line), line |-> line,
                      back |-> <<>>]>>
        /\ UNCHANGED <<db, update_endpoints, mutex, stack, con, entered, applied, issued,
                       cache_vars>>

\* handle_one_connection_as_get: one round of its loop, from read_line to
\* what the round writes; at the end of the stream the function returns
Serve ==
    LET r == read_line(connection.up)
        wrote == handle_line(db.covers, connection.disk, r.line)
    IN  /\ connection.server = "open"
        /\ has_line(connection.up, connection.client = "closed")
        /\ IF r.line = <<>>
           THEN /\ connection' = [connection EXCEPT !.server = "closed"]
                /\ hist' = Append(hist, [op |-> "serve", line |-> r.line, wrote |-> <<>>,
                                         server |-> "closed"])
           ELSE /\ connection' = [connection EXCEPT !.up = r.rest, !.down = @ \o wrote]
                /\ hist' = Append(hist, [op |-> "serve", line |-> r.line, wrote |-> wrote,
                                         server |-> "open"])
        /\ UNCHANGED <<db, update_endpoints, mutex, stack, con, entered, applied, issued,
                       cache_vars>>

\* the reading half of Client::cover_bytes, and of the other program: the
\* response line and, behind a len line, the bytes
Receive ==
    LET r == read_line(connection.down)
        c == cover_bytes_response(r.line)
    IN  /\ connection.client \in {"cover_bytes", "read_line"}
        /\ has_line(connection.down, connection.server = "closed")
        /\ c.ok => Len(r.rest) >= c.need
        /\ connection' = [connection EXCEPT !.down = IF c.ok THEN Skip(r.rest, c.need)
                                                     ELSE r.rest,
                                            !.client = "idle"]
        /\ hist' = Append(hist, [op |-> "response", ok |-> c.ok,
                                 bytes |-> IF c.ok THEN SubSeq(r.rest, 1, c.need) ELSE <<>>,
                                 err |-> c.err])
        /\ UNCHANGED <<db, update_endpoints, mutex, stack, con, entered, applied, issued,
                       cache_vars>>

\* the client drops the connection between two requests
Close ==
    /\ connection.client = "idle"
    /\ hist # <<>>
    /\ connection' = [connection EXCEPT !.client = "closed"]
    /\ UNCHANGED <<db, update_endpoints, mutex, stack, con, entered, applied, issued, hist,
                   cache_vars>>

\* a server with two covers; the file of the first holds up to two bytes, a
\* line feed among them, the file of the second may be unreadable
InitGet ==
    /\ db = [new_empty("dbfile", "lib") EXCEPT
                !.covers = Put(Put(EmptyMap, 0, [location |-> "a"]), 1, [location |-> "b"])]
    /\ connection \in {[NoConnection EXCEPT !.disk = [l \in {"a", "b"} |->
                                                        IF l = "a" THEN a ELSE b]] :
                          a \in {<<>>, <<"x">>, <<LF, "x">>}, b \in {NoData, <<"y">>}}
    /\ update_endpoints = <<>>
    /\ mutex = 0
    /\ stack = [t \in Threads |-> <<>>]
    /\ con = [s \in Subs |-> NewCon]
    /\ entered = 0
    /\ applied = <<>>
    /\ issued = 0
    /\ hist = <<>>
    /\ CacheInit

NextGet == CoverBytes \/ SendText \/ SendMalformed \/ Serve \/ Receive \/ Close

SpecGet == InitGet /\ [][NextGet]_vars

\* ------------------------------------------------------------------ get claims

\* C24: a text that is encoded and decoded again is the text, and its
\* encoding holds no line feed and no carriage return, so that the line
\* written for it is the one line the server reads
C24_EncodeDecodeRoundTrip ==
    \A n \in 1..Len(hist) :
        hist[n].op = "send" /\ hist[n].line = con_get_encode_string(hist[n].text) =>
            /\ hist[n].back = hist[n].text
            /\ \A k \in 1..Len(hist[n].line) : hist[n].line[k] \notin {LF, CR}
            /\ n < Len(hist) /\ hist[n + 1].op = "serve" =>
                   hist[n + 1].line = writeln(hist[n].line)

\* the text backslash, "n", line feed was sent and read as one line
C24_Witness ==
    /\ Len(hist) >= 2
    /\ hist[1].op = "send" /\ hist[1].text = <<BS, "n", LF>>
    /\ hist[1].line = <<BS, BS, "n", BS, "n">>
    /\ hist[1].back = hist[1].text
    /\ hist[2].op = "serve" /\ hist[2].line = <<BS, BS, "n", BS, "n", LF>>

\* the request asks for the bytes of a cover: a call of Client::cover_bytes,
\* or the text of such a request with the id 0 or 1, without an id or with
\* an id that is no number
AsksCover(e) ==
    \/ e.op = "cover_bytes"
    \/ /\ e.op = "send"
       /\ e.line = con_get_encode_string(e.text)
       /\ e.text \in {<<"cover-bytes">>, <<"cover-bytes", LF, "x">>,
                      <<"cover-bytes", LF, "0">>, <<"cover-bytes", LF, "1">>}

\* the id asked for, None if it is missing or no number
AskedId(e) ==
    IF e.op = "cover_bytes" THEN e.id
    ELSE IF e.text = <<"cover-bytes", LF, "0">> THEN 0
    ELSE IF e.text = <<"cover-bytes", LF, "1">> THEN 1
    ELSE None

Known(id) == id # None /\ id \in DOMAIN db.covers

BytesOf(id) == connection.disk[db.covers[id].location]

\* C25: a request for the bytes of a cover is answered by exactly the line
\* "len: N" and the N bytes of the cover if the id is a number, the cover is
\* known and its bytes can be read; by the line "no cover" if the id is
\* missing, no number or unknown; by the line "no data" if the cover is known
\* and its bytes cannot be read.  The client returns the bytes for the len
\* answer and the line as an error string for the other two
C25_CoverBytesAnswer ==
    \A n \in 1..(Len(hist) - 1) :
        AsksCover(hist[n]) /\ hist[n + 1].op = "serve" =>
            LET id == AskedId(hist[n])
                wrote == hist[n + 1].wrote
                read == Known(id) /\ BytesOf(id) # NoData
            IN  /\ wrote = IF read
                           THEN <<"len:", " ", Digits[Len(BytesOf(id)) + 1], LF>>
                                    \o BytesOf(id)
                           ELSE IF Known(id) THEN <<"n", "o data", LF>>
                           ELSE <<"n", "o cover", LF>>
                /\ n + 2 <= Len(hist) /\ hist[n + 2].op = "response" =>
                       IF read
                       THEN hist[n + 2].ok /\ hist[n + 2].bytes = BytesOf(id)
                       ELSE ~hist[n + 2].ok /\ hist[n + 2].err = wrote

\* cover_bytes(0) returned the two bytes of the cover, a line feed among
\* them, and cover_bytes(1) the error "no data"
C25_Witness ==
    /\ Len(hist) = 6
    /\ hist[1].op = "cover_bytes" /\ hist[1].id = 0
    /\ hist[2].wrote = <<"len:", " ", "2", LF, LF, "x">>
    /\ hist[3].ok /\ hist[3].bytes = <<LF, "x">>
    /\ hist[4].op = "cover_bytes" /\ hist[4].id = 1
    /\ hist[6].op = "response" /\ ~hist[6].ok /\ hist[6].err = <<"n", "o data", LF>>
    /\ connection.down = <<>>

\* the text sent names a verb other than cover-bytes
UnknownVerb(e) ==
    e.op = "send" /\ e.text # <<>> /\ e.text[1] \notin {"cover-bytes", LF, CR}

\* C26: a request with an unknown verb is answered with an error line, and
\* the server closes the channel after it
C26_UnknownVerbAnswered ==
    \A n \in 2..Len(hist) :
        hist[n].op = "serve" /\ UnknownVerb(hist[n - 1]) =>
            /\ hist[n].wrote # <<>>
            /\ hist[n].server = "closed"

\* the server has read a request with an unknown verb and waits for the next
\* line, the client waits for the response: nothing is on its way
C26_Witness ==
    /\ Len(hist) = 2
    /\ UnknownVerb(hist[1]) /\ hist[2].op = "serve"
    /\ connection.client = "read_line" /\ connection.server = "open"
    /\ connection.up = <<>> /\ connection.down = <<>>
    /\ ~ENABLED NextGet

\* -------------------------------------------------------------- queue commands
\* SpecCommands: apply_command on a database without subscribers, for the
\* commands that edit the queue by an index-path

\* the commands applied in a run
MaxCommands == 2

\* handle_actions: the databases it may leave, one command per action
RECURSIVE handle_actions(_, _)
handle_actions(d, actions) ==
    IF actions = <<>> THEN {d}
    ELSE IF handle_action(d, Head(actions)) = {} THEN handle_actions(d, Tail(actions))
    ELSE UNION {handle_actions(apply_match(d, command).db, Tail(actions)) :
                  command \in handle_action(d, Head(actions))}

\* positions: the first two, and one that no container has
Positions == {0, 1, MaxLen + 2}

QueueCommands ==
    LET Paths == SeqsUpTo(Positions, 2)
        Song7 == Into(QSong(7))
    IN  {QueueUpdate(p, q) : p \in Paths, q \in {Song7, EmptyQueue}}
        \cup {QueueAdd(p, Song7) : p \in Paths}
        \cup {QueueInsert(p, pos, Song7) : p \in Paths, pos \in {0, MaxLen + 2}}
        \cup {QueueRemove(p) : p \in Paths}
        \cup {QueueGoto(p) : p \in Paths}

\* the queues the commands meet: the root is a folder, empty, of songs, or
\* with a folder, a loop, a random or a shuffle as its first child
CommandTrees ==
    LET Song(id) == Into(QSong(id))
        Folder(s) == Into(QFolder(0, s, ""))
    IN  {EmptyQueue, Folder(<<Song(0), Song(1), Song(2)>>),
         Folder(<<Folder(<<Song(0), Song(1)>>), Song(2)>>),
         Folder(<<Into(QLoop(0, 0, Song(0))), Song(2)>>),
         Folder(<<Into(QRandom(<<Song(0), Song(1)>>)), Song(2)>>),
         Folder(<<Into(QShuffle(0, <<1, 0>>, <<Song(0), Song(1)>>, 0)), Song(2)>>)}

CallApplyCommand ==
    \E command \in QueueCommands :
        LET r == apply_match(db, command)
        IN  /\ Len(hist) < MaxCommands
            /\ db' \in handle_actions(r.db, r.actions)
            /\ hist' = Append(hist, [op |-> command.type, arg |-> command,
                                     before |-> db.queue, q |-> db'.queue])
            /\ UNCHANGED <<hub_vars, cache_vars>>

InitCommands ==
    /\ db \in {[new_empty("dbfile", "lib") EXCEPT !.queue = q] : q \in CommandTrees}
    /\ HubInit
    /\ hist = <<>>
    /\ CacheInit

NextCommands == CallApplyCommand

SpecCommands == InitCommands /\ [][NextCommands]_vars

\* C27: whatever commands were applied, the root of the queue is a Folder
C27_RootIsFolder == db.queue.content.type = "Folder"

\* QueueUpdate with the empty path and a song has made the song the root
C27_Witness ==
    /\ Len(hist) = 1
    /\ hist[1].op = "QueueUpdate" /\ hist[1].arg.index = <<>>
    /\ hist[1].before.content.type = "Folder"
    /\ db.queue = Into(QSong(7))

\* the path of the command names no node of the queue it met, or the
\* command inserts behind the last position of the container it names
InvalidIndex(e) ==
    LET item == get_item_at_index(e.before, e.arg.index, 0)
    IN  \/ item = NoQueue
        \/ /\ e.op = "QueueInsert"
           /\ \/ item.content.type = "Folder" /\ e.arg.pos > Len(item.content.contents)
              \/ item.content.type = "Shuffle" /\ e.arg.pos > Len(item.content.map)

\* C28: a command whose path names no node, or whose insert position lies
\* behind the end, leaves the queue as it was, every cursor included
C28_InvalidIndexIsNoOp ==
    \A n \in 1..Len(hist) : InvalidIndex(hist[n]) => hist[n].q = hist[n].before

\* QueueGoto([MaxLen + 2]) met a root folder of three songs and left its
\* cursor at MaxLen + 2
C28_Witness ==
    /\ Len(hist) = 1
    /\ hist[1].op = "QueueGoto" /\ hist[1].arg.index = <<MaxLen + 2>>
    /\ Len(hist[1].before.content.contents) = 3
    /\ hist[1].before.content.index = 0
    /\ db.queue.content.index = MaxLen + 2
    /\ db.queue.content.contents = hist[1].before.content.contents

\* the element a Folder or a Shuffle has as its current one, NoQueue if the
\* cursor names none
CurrentChild(q) ==
    IF q.content.type = "Folder"
    THEN IF Has(q.content.contents, q.content.index)
         THEN At(q.content.contents, q.content.index) ELSE NoQueue
    ELSE IF Has(q.content.map, q.content.current)
              /\ Has(q.content.elems, At(q.content.map, q.content.current))
         THEN At(q.content.elems, At(q.content.map, q.content.current)) ELSE NoQueue

Cursor(q) == IF q.content.type = "Folder" THEN q.content.index ELSE q.content.current

\* C29: a disabled node has len 0, and an advance_index that moves the cursor
\* of a Folder or a Shuffle and returns true has moved it to an enabled child
C29_DisabledNeverCurrent ==
    [][ /\ ~db.queue.enabled => len(db.queue) = 0
        /\ (/\ Len(hist') = Len(hist) + 1
            /\ hist'[Len(hist')].op = "advance_index"
            /\ hist'[Len(hist')].ret = TRUE
            /\ db.queue.content.type \in {"Folder", "Shuffle"}
            /\ Cursor(db'.queue) # Cursor(db.queue))
           => /\ CurrentChild(db'.queue) # NoQueue
              /\ CurrentChild(db'.queue).enabled ]_vars

\* the first advance_index on a shuffle of a song and a disabled folder
\* returned true and left the disabled folder as the current element
C29_Witness ==
    /\ Len(hist) = 1 /\ hist[1].op = "advance_index" /\ hist[1].ret = TRUE
    /\ db.queue.content.type = "Shuffle"
    /\ db.queue.content.current = 1
    /\ CurrentChild(db.queue) # NoQueue
    /\ ~CurrentChild(db.queue).enabled
    /\ get_current(db.queue) = CurrentChild(db.queue)

\* the functions of Song that take the database, db: &Database
takes_db(op) == op \in {"cache_data_start_thread", "cached_data_now"}

\* the caller is in a function that it gave the database to: the database
\* of the server is reached through its mutex only, so the caller holds the
\* lock on the catalog until the function returns
holds_catalog(t) == pc[t] # Idle /\ takes_db(pc[t].op)

\* C30: no thread waits for load_data to return, in its own call of it or in
\* the join of the spawned thread, while it holds the lock on the catalog
C30_NoLoadUnderCatalogLock ==
    \A t \in CacheThreads :
        holds_catalog(t) =>
            ~(pc[t].step \in {"load", "join"} /\ pc[t].h \in InFlight)

\* a caller of cached_data_now found the cache empty and is in load_data,
\* which no thread was spawned for
C30_Witness ==
    /\ pc[1].op = "cached_data_now" /\ pc[1].step = "load"
    /\ pc[1].h \in InFlight /\ ~loads[pc[1].h].spawned
    /\ cached_data_lock = 1

\* ------------------------------------------------------------ queue look-ahead

RECURSIVE get_first(_)
get_first(self) ==
    LET c == self.content
    IN  CASE c.type = "Song" -> self
          [] c.type = "Folder" -> IF c.contents # <<>> THEN Head(c.contents) ELSE NoQueue
          [] c.type = "Loop" -> get_first(c.inner)
          [] c.type = "Random" -> IF c.q # <<>> THEN Head(c.q) ELSE NoQueue
          [] c.type = "Shuffle" ->
                IF c.current = 0
                THEN IF Has(c.elems, c.current) THEN At(c.elems, c.current) ELSE NoQueue
                ELSE IF Has(c.elems, c.next) THEN At(c.elems, c.next) ELSE NoQueue

RECURSIVE get_next(_)
get_next(self) ==
    LET c == self.content
    IN  CASE c.type = "Song" -> NoQueue
          [] c.type = "Folder" ->
                IF Has(c.contents, c.index)
                THEN IF get_next(At(c.contents, c.index)) # NoQueue
                     THEN get_next(At(c.contents, c.index))
                     ELSE IF Has(c.contents, c.index + 1)
                     THEN get_current(At(c.contents, c.index + 1))
                     ELSE NoQueue
                ELSE NoQueue
          [] c.type = "Loop" ->
                IF get_next(c.inner) # NoQueue THEN get_next(c.inner)
                ELSE IF c.total = 0 \/ c.current < c.total THEN get_first(c.inner)
                ELSE NoQueue
          [] c.type = "Random" ->
                IF Has(c.q, saturating_sub(Len(c.q), 1))
                THEN get_current(At(c.q, saturating_sub(Len(c.q), 1)))
                ELSE NoQueue
          [] c.type = "Shuffle" ->
                IF shuffle_elem(c, c.current + 1) >= 0
                THEN At(c.elems, shuffle_elem(c, c.current + 1))
                ELSE NoQueue

\* Option<&SongId>: the id, or None
song_id(found) ==
    IF found # NoQueue /\ found.content.type = "Song" THEN found.content.id ELSE None

get_current_song(self) == song_id(get_current(self))

get_next_song(self) == song_id(get_next(self))

\* ------------------------------------------------------- queue claims, continued

\* the node an action of a call names, in the queue the call left
Named(e, action) == get_item_at_index(e.q, action.path, 0)

\* C33: every AddRandomSong(path) that init or advance_index pushes names a
\* Random node, and every SetShuffle(path, ..) a Shuffle node: the node at
\* path in the queue the call left is the one the host is to change
C33_ActionsNameTheirNode ==
    \A n \in 1..Len(hist) :
        hist[n].op \in {"init", "advance_index"} =>
            \A k \in 1..Len(hist[n].actions) :
                LET action == hist[n].actions[k]
                IN  /\ Named(hist[n], action) # NoQueue
                    /\ Named(hist[n], action).content.type =
                          (IF action.type = "AddRandomSong" THEN "Random" ELSE "Shuffle")

\* init on a folder whose first child is an empty Random pushed two
\* AddRandomSong actions with the path of the folder
C33_Witness ==
    /\ Len(hist) = 1 /\ hist[1].op = "init"
    /\ db.queue.content.type = "Folder"
    /\ db.queue.content.contents # <<>>
    /\ db.queue.content.contents[1].content = QRandom(<<>>)
    /\ hist[1].actions = <<AddRandomSong(<<>>), AddRandomSong(<<>>)>>
    /\ Named(hist[1], hist[1].actions[1]) = db.queue

\* C35: whenever get_current returns a node, the node is a Song
C35_CurrentIsSongLeaf ==
    get_current(db.queue) # NoQueue => get_current(db.queue).content.type = "Song"

\* after a call, the current element of a root Shuffle is a folder of two
\* songs: get_current returns the folder, and get_current_song no song
C35_Witness ==
    /\ hist # <<>>
    /\ db.queue.content.type = "Shuffle"
    /\ get_current(db.queue) = Into(QFolder(0, <<Into(QSong(0)), Into(QSong(1))>>, ""))
    /\ get_current(get_current(db.queue)) = Into(QSong(0))
    /\ get_current_song(db.queue) = None

\* C36: whenever get_next_song returns a song, the advance_index that follows
\* returns true and leaves that song as the one get_current_song returns
C36_NextIsOneStepAhead ==
    [][ (/\ Len(hist') = Len(hist) + 1
         /\ hist'[Len(hist')].op = "advance_index"
         /\ get_next_song(db.queue) # None)
        => /\ hist'[Len(hist')].ret = TRUE
           /\ get_current_song(db'.queue) = get_next_song(db.queue) ]_vars

\* a folder of a song, a disabled song 0 and song 2 was advanced once:
\* get_next_song had offered song 0, and song 2 is current
C36_Witness ==
    /\ Len(hist) = 1 /\ hist[1].op = "advance_index" /\ hist[1].ret = TRUE
    /\ db.queue.content.type = "Folder"
    /\ Len(db.queue.content.contents) = 3
    /\ db.queue.content.contents[2] = Disabled(Into(QSong(0)))
    /\ get_next_song([db.queue EXCEPT !.content.index = 0]) = 0
    /\ db.queue.content.index = 2
    /\ get_current_song(db.queue) = 2

\* the queue is an enabled Loop over an enabled folder of enabled songs, and
\* every call so far was advance_index
LoopWalk ==
    /\ db.queue.enabled
    /\ db.queue.content.type = "Loop"
    /\ db.queue.content.inner.enabled
    /\ db.queue.content.inner.content.type = "Folder"
    /\ db.queue.content.inner.content.contents # <<>>
    /\ \A n \in 1..Len(db.queue.content.inner.content.contents) :
          /\ db.queue.content.inner.content.contents[n].enabled
          /\ db.queue.content.inner.content.contents[n].content.type = "Song"
    /\ OnlyAdvance

\* C37: a Loop(total > 0, 0, inner), inner a folder of k enabled songs with
\* cursor 0, lets advance_index return true total * k - 1 = len() - 1 times;
\* the call after them returns false and leaves current and the cursor of
\* inner at 0.  With total = 0 no call returns false.
C37_LoopPlaysInnerTotalTimes ==
    LoopWalk =>
        LET total == db.queue.content.total
            k == Len(db.queue.content.inner.content.contents)
        IN  /\ total > 0 =>
                 /\ len(db.queue) = total * k
                 /\ \A n \in 1..Len(hist) :
                       /\ n < total * k => hist[n].ret = TRUE
                       /\ n = total * k =>
                             /\ hist[n].ret = FALSE
                             /\ hist[n].q.content.current = 0
                             /\ hist[n].q.content.inner.content.index = 0
            /\ total = 0 => \A n \in 1..Len(hist) : hist[n].ret = TRUE

\* a Loop of two rounds over a folder of two songs was advanced four times:
\* the fourth call returned false
C37_Witness ==
    /\ LoopWalk
    /\ db.queue.content.total = 2
    /\ Len(db.queue.content.inner.content.contents) = 2
    /\ Len(hist) = 4
    /\ hist[3].ret = TRUE /\ hist[4].ret = FALSE
    /\ db.queue.content.current = 0

\* ------------------------------------------------------------------ queue edits
\* SpecEdit: add_to_end, insert and remove_by_index called on the queue of a
\* database whose cursors have moved

\* edits made in one run of SpecEdit
MaxEdits == 2

\* the queues the edits meet, every song in them a different one: folders
\* with the cursor at each child, shuffles of three songs with every map,
\* every cursor and the first and last next, and trees in which a Random, a
\* Shuffle or a Loop holds a folder
EditTrees ==
    LET Song(id) == Into(QSong(id))
        Folder(i, s) == Into(QFolder(i, s, ""))
        Pair == Folder(0, <<Song(0), Song(1)>>)
    IN  {Folder(i, <<Song(0), Song(1), Song(2)>>) : i \in 0..2}
        \cup {Folder(0, <<>>), Folder(0, <<Song(0)>>)}
        \cup {Into(QShuffle(current, map, <<Song(0), Song(1), Song(2)>>, next)) :
                current \in 0..2, map \in Shuffled(0..2), next \in {0, 2}}
        \cup {Into(QRandom(<<Pair, Song(2)>>)),
              Into(QShuffle(0, <<1, 0>>, <<Pair, Song(2)>>, 0)),
              Folder(0, <<Into(QRandom(<<Pair, Song(2)>>)), Song(3)>>),
              Folder(1, <<Song(3), Into(QShuffle(1, <<1, 0>>, <<Pair, Song(2)>>, 0))>>),
              Folder(0, <<Into(QLoop(0, 0, Pair)), Song(2)>>)}

\* the index paths handed to remove_by_index: up to three positions, and a
\* position behind every container
EditPaths == SeqsUpTo(0..2, 3) \cup {<<MaxLen>>}

Edited(op, arg, ret) ==
    hist' = Append(hist, [op |-> op, arg |-> arg, ret |-> ret,
                          before |-> db.queue, q |-> db'.queue])

\* add_to_end(Song(9))
CallAddToEnd ==
    LET r == add_to_end(db.queue, Into(QSong(9)))
    IN  /\ Len(hist) < MaxEdits
        /\ db' = [db EXCEPT !.queue = r.q]
        /\ Edited("add_to_end", None, r.ret)
        /\ UNCHANGED <<hub_vars, cache_vars>>

\* insert(Song(9), index)
CallInsertAt ==
    \E index \in 0..(MaxLen + 1) :
        LET r == insert(db.queue, Into(QSong(9)), index)
        IN  /\ Len(hist) < MaxEdits
            /\ db' = [db EXCEPT !.queue = r.q]
            /\ Edited("insert", index, r.ret)
            /\ UNCHANGED <<hub_vars, cache_vars>>

\* remove_by_index(index, 0)
CallRemoveByIndex ==
    \E index \in EditPaths :
        LET r == remove_by_index(db.queue, index, 0)
        IN  /\ Len(hist) < MaxEdits
            /\ db' = [db EXCEPT !.queue = r.q]
            /\ Edited("remove_by_index", index, r.ret)
            /\ UNCHANGED <<hub_vars, cache_vars>>

InitEdit ==
    /\ db \in {[new_empty("dbfile", "lib") EXCEPT !.queue = q] : q \in EditTrees}
    /\ HubInit
    /\ hist = <<>>
    /\ CacheInit

NextEdit == CallAddToEnd \/ CallInsertAt \/ CallRemoveByIndex

SpecEdit == InitEdit /\ [][NextEdit]_vars

\* ------------------------------------------------------------------ edit claims

\* the cursor of a Folder or a Shuffle names one of its elements
CursorInRange(q) == CurrentChild(q) # NoQueue

\* an edit of a Folder or a Shuffle at the root whose cursor named an element:
\* an insert that was made, or a removal at one position
EditsBesideCursor(e) ==
    /\ e.before.content.type \in {"Folder", "Shuffle"}
    /\ CursorInRange(e.before)
    /\ \/ e.op = "insert" /\ e.before.content.type = "Folder" /\ e.ret = TRUE
       \/ e.op = "remove_by_index" /\ Len(e.arg) = 1 /\ e.arg[1] # Cursor(e.before)

\* C31: an insert into a Folder, and a removal from a Folder or a Shuffle of
\* a child that is not the current one, leave the element get_current returns
\* the same; the cursor moves by one exactly when the insert is at or before
\* it, or the removal before it
C31_EditKeepsCurrent ==
    \A n \in 1..Len(hist) :
        EditsBesideCursor(hist[n]) =>
            LET e == hist[n]
                cursor == Cursor(e.before)
            IN  /\ get_current(e.q) = get_current(e.before)
                /\ Cursor(e.q) =
                      (IF e.op = "insert"
                       THEN (IF e.arg <= cursor THEN cursor + 1 ELSE cursor)
                       ELSE (IF e.arg[1] < cursor THEN cursor - 1 ELSE cursor))

\* song 0 was removed from a Shuffle of three songs that played song 1
\* through map = [1, 0, 2]: the cursor stayed, and song 2 is current
C31_Witness ==
    /\ Len(hist) = 1 /\ hist[1].op = "remove_by_index" /\ hist[1].arg = <<1>>
    /\ hist[1].before.content.type = "Shuffle"
    /\ hist[1].before.content.current = 0
    /\ hist[1].before.content.map = <<1, 0, 2>>
    /\ get_current(hist[1].before) = Into(QSong(1))
    /\ hist[1].ret = Into(QSong(0))
    /\ db.queue.content.current = 0
    /\ get_current(db.queue) = Into(QSong(2))

\* the ids of the songs of a queue, in the order its containers hold them
RECURSIVE SongsOf(_)
SongsOf(self) ==
    LET c == self.content
        RECURSIVE all(_)
        all(v) == IF v = <<>> THEN <<>> ELSE SongsOf(Head(v)) \o all(Tail(v))
    IN  CASE c.type = "Song" -> <<c.id>>
          [] c.type = "Folder" -> all(c.contents)
          [] c.type = "Loop" -> SongsOf(c.inner)
          [] c.type = "Random" -> all(c.q)
          [] c.type = "Shuffle" -> all(c.elems)

\* the path of a removal names a node whose parent is a Folder, a Random or
\* a Shuffle
NamesChild(e) ==
    /\ e.op = "remove_by_index"
    /\ e.arg # <<>>
    /\ get_item_at_index(e.before, e.arg, 0) # NoQueue
    /\ get_item_at_index(e.before, SubSeq(e.arg, 1, Len(e.arg) - 1), 0).content.type
          \in {"Folder", "Random", "Shuffle"}

\* C32: a removal whose path names a child of a Folder, a Random or a Shuffle
\* returns the node get_item_at_index finds at that path and leaves the
\* songs outside that node where they were
C32_RemovesTheNodeNamed ==
    \A n \in 1..Len(hist) :
        NamesChild(hist[n]) =>
            LET e == hist[n]
                node == get_item_at_index(e.before, e.arg, 0)
                gone == {SongsOf(node)[k] : k \in 1..Len(SongsOf(node))}
            IN  /\ e.ret = node
                /\ SongsOf(e.q) = SelectSeq(SongsOf(e.before), LAMBDA id : id \notin gone)

\* remove_by_index([0, 1]) on a Random whose first item is a folder of songs
\* 0 and 1: the path names song 1, and the folder was removed
C32_Witness ==
    /\ Len(hist) = 1 /\ hist[1].op = "remove_by_index" /\ hist[1].arg = <<0, 1>>
    /\ hist[1].before.content.type = "Random"
    /\ get_item_at_index(hist[1].before, <<0, 1>>, 0) = Into(QSong(1))
    /\ hist[1].ret = Into(QFolder(0, <<Into(QSong(0)), Into(QSong(1))>>, ""))
    /\ db.queue = Into(QRandom(<<Into(QSong(2))>>))

\* map holds every index of elems once
IsPermutation(map, elems) ==
    /\ Len(map) = Len(elems)
    /\ \A i \in 1..Len(map) : Has(elems, map[i])
    /\ \A i, j \in 1..Len(map) : map[i] = map[j] => i = j

\* C38: whatever add_to_end, insert and remove_by_index calls were made on a
\* Shuffle whose map was a permutation of the indices of elems, map still is
\* one, and next is below elems.len() unless elems is empty
C38_ShuffleMapStaysPermutation ==
    db.queue.content.type = "Shuffle" =>
        /\ IsPermutation(db.queue.content.map, db.queue.content.elems)
        /\ db.queue.content.elems # <<>> =>
              db.queue.content.next < Len(db.queue.content.elems)

\* the first entry was removed from a Shuffle with map = [0, 1, 2]: map is
\* [1, 2] over two elements
C38_Witness ==
    /\ Len(hist) = 1 /\ hist[1].op = "remove_by_index" /\ hist[1].arg = <<0>>
    /\ hist[1].before.content.type = "Shuffle"
    /\ IsPermutation(hist[1].before.content.map, hist[1].before.content.elems)
    /\ db.queue.content.map = <<1, 2>>
    /\ Len(db.queue.content.elems) = 2

\* --------------------------------------------------------------------- playback
\* SpecPlay: the commands that move or edit the queue, applied by
\* apply_command to the database of a server and to that of a client, with
\* the actions handled that advance_index_db and set_index_db collect

\* commands applied in one run of SpecPlay
MaxPlay == 4

\* the songs of the catalog: none, or songs 0 and MaxId
PlayCatalogs ==
    {EmptyMap,
     Put(Put(EmptyMap, 0, [id |-> 0, album |-> None, artist |-> None]),
         MaxId, [id |-> MaxId, album |-> None, artist |-> None])}

\* the queues at the start: the empty root folder, a Random at the root and
\* as the first, the only and the second child of the root folder, and a
\* Shuffle as its second child
PlayTrees ==
    LET Song(id) == Into(QSong(id))
        Folder(s) == Into(QFolder(0, s, ""))
        Buffer == Into(QRandom(<<Song(2), Song(3)>>))
    IN  {EmptyQueue, Buffer, Folder(<<Buffer>>), Folder(<<Buffer, Song(4)>>),
         Folder(<<Song(2), Into(QRandom(<<>>))>>),
         Folder(<<Song(2), Into(QShuffle(0, <<0, 1>>, <<Song(3), Song(4)>>, 1))>>)}

PlayCommands ==
    {NextSong, QueueAdd(<<>>, Into(QSong(7))), QueueInsert(<<>>, 0, Into(QSong(7)))}
    \cup {QueueGoto(p) : p \in {<<0>>, <<1>>}}
    \cup {QueueRemove(p) : p \in {<<0>>, <<1>>}}

\* apply_command(command) without subscribers: the match, then handle_actions
CallPlay ==
    \E command \in PlayCommands :
        LET r == apply_match(db, command)
        IN  /\ Len(hist) < MaxPlay
            /\ db' \in handle_actions(r.db, r.actions)
            /\ hist' = Append(hist, [op |-> command.type, arg |-> command,
                                     before |-> db.queue, moved |-> r.db.queue,
                                     actions |-> r.actions, q |-> db'.queue])
            /\ UNCHANGED <<hub_vars, cache_vars>>

InitPlay ==
    /\ db \in {[new_empty(path, "lib") EXCEPT !.songs = songs, !.queue = q] :
                  path \in {"dbfile", ""}, songs \in PlayCatalogs, q \in PlayTrees}
    /\ HubInit
    /\ hist = <<>>
    /\ CacheInit

NextPlay == CallPlay

SpecPlay == InitPlay /\ [][NextPlay]_vars

\* ------------------------------------------------------------- playback claims

\* the Random that is playing: the root, or the current child of the root
\* folder; NoQueue if neither is an enabled Random
PlayingRandom(q) ==
    IF q.content.type = "Random" THEN (IF q.enabled THEN q ELSE NoQueue)
    ELSE IF q.content.type = "Folder" /\ CurrentChild(q) # NoQueue
            /\ CurrentChild(q).enabled /\ CurrentChild(q).content.type = "Random"
    THEN CurrentChild(q)
    ELSE NoQueue

\* a server whose catalog holds a song applied NextSong while a Random with
\* two or more buffered songs was playing
AdvancedInRandom(e) ==
    /\ ~is_client(db)
    /\ DOMAIN db.songs # {}
    /\ e.op = "NextSong"
    /\ PlayingRandom(e.before) # NoQueue
    /\ Len(PlayingRandom(e.before).content.q) >= 2
    /\ \A k \in 1..Len(PlayingRandom(e.before).content.q) :
          PlayingRandom(e.before).content.q[k].content.type = "Song"

\* C34: a NextSong met while an enabled Random with two or more buffered
\* songs is playing pops the front of the buffer, appends one song of the
\* catalog, and leaves the cursor of the folder around it on the Random
C34_RandomIsEndless ==
    \A n \in 1..Len(hist) :
        AdvancedInRandom(hist[n]) =>
            LET e == hist[n]
                was == PlayingRandom(e.before).content.q
            IN  /\ PlayingRandom(e.q) # NoQueue
                /\ e.before.content.type = "Folder" =>
                      e.q.content.index = e.before.content.index
                /\ Len(PlayingRandom(e.q).content.q) = Len(was)
                /\ SubSeq(PlayingRandom(e.q).content.q, 1, Len(was) - 1) = Tail(was)
                /\ \E song \in DOMAIN db.songs :
                      PlayingRandom(e.q).content.q[Len(was)] = Into(QSong(song))

\* NextSong on Folder(0, [Random([Song(2), Song(3)]), Song(4)]): the folder
\* plays Song(4), its second child, and the Random holds Song(3) and a new song
C34_Witness ==
    /\ Len(hist) = 1 /\ AdvancedInRandom(hist[1])
    /\ hist[1].before.content.type = "Folder"
    /\ Len(hist[1].before.content.contents) = 2
    /\ db.queue.content.index = 1
    /\ get_current(db.queue) = Into(QSong(4))
    /\ Len(db.queue.content.contents[1].content.q) = 2
    /\ db.queue.content.contents[1].content.q[1] = Into(QSong(3))

\* every Folder of the queue has its cursor on a child, or at 0 if it has none
RECURSIVE FolderCursorsInRange(_)
FolderCursorsInRange(self) ==
    LET c == self.content
        every(v) == \A k \in 1..Len(v) : FolderCursorsInRange(v[k])
    IN  CASE c.type = "Song" -> TRUE
          [] c.type = "Folder" ->
                /\ IF c.contents = <<>> THEN c.index = 0 ELSE c.index < Len(c.contents)
                /\ every(c.contents)
          [] c.type = "Loop" -> FolderCursorsInRange(c.inner)
          [] c.type = "Random" -> every(c.q)
          [] c.type = "Shuffle" -> every(c.elems)

\* the queue was the empty root folder before the first command
StartedEmpty ==
    IF hist = <<>> THEN db.queue = EmptyQueue ELSE hist[1].before = EmptyQueue

\* C39: whatever QueueAdd, QueueInsert, QueueRemove, QueueGoto and NextSong
\* commands were applied to a queue that started as the empty root folder,
\* the cursor of every Folder is below its number of children, and 0 if it
\* has none
C39_FolderCursorInRange == StartedEmpty => FolderCursorsInRange(db.queue)

\* two songs were added to the empty queue, the second was made current and
\* then removed: the cursor is 1, the folder holds one song, and get_current
\* finds none
C39_Witness ==
    /\ StartedEmpty
    /\ Len(hist) = 4
    /\ hist[1].op = "QueueAdd" /\ hist[2].op = "QueueAdd"
    /\ hist[3].arg = QueueGoto(<<1>>) /\ hist[4].arg = QueueRemove(<<1>>)
    /\ hist[3].q.content.index = 1 /\ Len(hist[3].q.content.contents) = 2
    /\ db.queue = Into(QFolder(1, <<Into(QSong(7))>>, ""))
    /\ get_current(db.queue) = NoQueue

\* the queues a server may be left with by one command per action, in the
\* order of the actions: a QueueAdd of a song of its catalog at the path of
\* an AddRandomSong, a QueueSetShuffle at the path of a SetShuffle
RECURSIVE ByCommands(_, _)
ByCommands(d, actions) ==
    IF actions = <<>> THEN {d.queue}
    ELSE LET action == Head(actions)
             commands ==
                 IF action.type = "AddRandomSong"
                 THEN {QueueAdd(action.path, Into(QSong(song))) : song \in DOMAIN d.songs}
                 ELSE {QueueSetShuffle(action.path, map, next) :
                         map \in shuffle_new_maps(action.len, action.next),
                         next \in shuffle_new_nexts(action.len)}
         IN  IF commands = {} THEN ByCommands(d, Tail(actions))
             ELSE UNION {ByCommands(apply_match(d, command).db, Tail(actions)) :
                           command \in commands}

\* C40: a NextSong or QueueGoto applied by a client leaves the queue as
\* advance_index_inner or set_index_inner left it, whatever actions they
\* pushed; applied by a server, the queue is what one QueueAdd or
\* QueueSetShuffle command per action makes of it
C40_ClientDropsActions ==
    \A n \in 1..Len(hist) :
        hist[n].op \in {"NextSong", "QueueGoto"} =>
            IF is_client(db)
            THEN hist[n].q = hist[n].moved
            ELSE hist[n].q \in ByCommands([db EXCEPT !.queue = hist[n].moved],
                                          hist[n].actions)

\* a client whose catalog holds songs applied NextSong on a Random of two
\* songs: an AddRandomSong was pushed, and the buffer holds the one song left
C40_Witness ==
    /\ is_client(db) /\ DOMAIN db.songs # {}
    /\ Len(hist) = 1 /\ hist[1].op = "NextSong"
    /\ hist[1].before = Into(QRandom(<<Into(QSong(2)), Into(QSong(3))>>))
    /\ hist[1].actions = <<AddRandomSong(<<>>)>>
    /\ db.queue = Into(QRandom(<<Into(QSong(3))>>))

====
